---------------------------- MODULE Spec2Model ----------------------------
(***************************************************************************)
(* Voice-assistant orchestrator (agent.py) and microphone client           *)
(* (mic_client.py): the connection handler with its admission gate, the    *)
(* stage pipeline, the framing of the audio reply, the VAD speech          *)
(* segmenter and the LLM response cache.                                   *)
(*                                                                         *)
(* Four specifications share the module:                                   *)
(*   Spec       the WebSocket server: handle() on every connection         *)
(*   SpecFrame  the framing of one audio reply and its reassembly          *)
(*   SpecSeg    mic_stream_loop's segmenter                                *)
(*   SpecCache  llm_cache with cache_response / get_cached_response        *)
(***************************************************************************)
EXTENDS Integers, Sequences, FiniteSets, TLC

VARIABLES
    \* ---- server (agent.py) ----
    processing_lock,  \* agent.py:58, TRUE while the asyncio.Lock is held
    inbox,            \* per connection: units the client sent, not yet iterated by handle
    audio_chunks,     \* handle's local list audio_chunks
    hpc,              \* where each handler coroutine is suspended
    state,            \* AgentState of the connection's pipeline run
    sent,             \* units the handler sent while handling the latest text unit
    alive,            \* FALSE once the peer closed the connection
    handled,          \* observation: the latest text unit handled and its outcome
    msgNo,            \* observation: number of units the client has sent
    inflight,         \* observation: pipeline runs started and not yet finished
    processed,        \* observation: numbers of the binary units ever given to a run
    discarded,        \* observation: numbers of the binary units dropped by a BUSY reply
    \* ---- framing (agent.py:553-560) ----
    framer, wire, receiver,
    \* ---- segmenter (mic_client.py) ----
    audio_queue, in_speech, speech_frames, silence_frames, audio_buffer,
    segments, frameNo, seen,
    \* ---- cache (agent.py:130-144) ----
    llm_cache, cacheObs,
    \* ---- tool dispatch (agent.py:393-452, mqtt_tools.py) ----
    pending,          \* state.tool_calls of the request
    exec,             \* per pending call: the executor thread running execute_tool
    response_queue,   \* mqtt_tools.py:20, request id -> None or the payload stored
    now,              \* int(time.time()), in seconds
    listener,         \* the bus thread inside on_message, and the messages left to come
    published,        \* observation: the commands published, [pos, rid]
    completed,        \* the results of the tasks in the order they completed, [pos, out]
    tpc,              \* where tools_node / tool_results_processor are
    tstate,           \* AgentState of the request in tool dispatch
    \* ---- microphone client and its connection (mic_client.py) ----
    mic               \* where vad_record_and_send is, its connection and the units on it

serverVars == <<processing_lock, inbox, audio_chunks, hpc, state, sent, alive,
                handled, msgNo, inflight, processed, discarded>>
frameVars  == <<framer, wire, receiver>>
segVars    == <<audio_queue, in_speech, speech_frames, silence_frames,
                audio_buffer, segments, frameNo, seen>>
cacheVars  == <<llm_cache, cacheObs>>
toolVars   == <<pending, exec, response_queue, now, listener, published, completed,
                tpc, tstate>>
micVars    == <<mic>>
vars       == <<serverVars, frameVars, segVars, cacheVars, toolVars, micVars>>

(***************************************************************************)
(* Optional[X]: None is <<>>, a value x is <<x>>.                          *)
(***************************************************************************)
None == <<>>
Some(x) == <<x>>

Max2(a, b) == IF a >= b THEN a ELSE b
Min2(a, b) == IF a <= b THEN a ELSE b

(***************************************************************************)
(* bytes objects.  A bytes value is a sequence of slices of named sources: *)
(* [src, lo, hi] stands for the bytes src[lo:hi].  Values are kept         *)
(* normalised (no empty slice, adjacent slices of one source merged), so   *)
(* two values are equal exactly when they denote the same bytes of the     *)
(* same sources.                                                           *)
(***************************************************************************)
Src(kind, conn, no) == [kind |-> kind, conn |-> conn, no |-> no]
Blob(src, n) == IF n = 0 THEN <<>> ELSE <<[src |-> src, lo |-> 0, hi |-> n]>>

RECURSIVE BLen(_)
BLen(b) == IF b = <<>> THEN 0 ELSE (Head(b).hi - Head(b).lo) + BLen(Tail(b))

\* a + b on bytes
BCat(a, b) ==
    IF a = <<>> THEN b
    ELSE IF b = <<>> THEN a
    ELSE LET x == a[Len(a)]
             y == b[1]
         IN IF x.src = y.src /\ x.hi = y.lo
            THEN SubSeq(a, 1, Len(a) - 1) \o <<[x EXCEPT !.hi = y.hi]>> \o Tail(b)
            ELSE a \o b

\* b[i:j] for 0 <= i, 0 <= j
RECURSIVE BSlice(_, _, _)
BSlice(b, i, j) ==
    IF b = <<>> \/ j <= i THEN <<>>
    ELSE LET h == Head(b)
             n == h.hi - h.lo
         IN IF i >= n THEN BSlice(Tail(b), i - n, j - n)
            ELSE BCat(<<[h EXCEPT !.lo = h.lo + i, !.hi = h.lo + Min2(j, n)]>>,
                      BSlice(Tail(b), 0, j - n))

\* b"".join(chunks)
RECURSIVE BJoin(_)
BJoin(chunks) == IF chunks = <<>> THEN <<>> ELSE BCat(Head(chunks), BJoin(Tail(chunks)))

(***************************************************************************)
(* Units on a WebSocket connection: a text unit or a binary unit.          *)
(***************************************************************************)
TextUnit(t) == [type |-> "text", text |-> t, data |-> <<>>]
BinUnit(b)  == [type |-> "bin",  text |-> "", data |-> b]

(***************************************************************************)
(* Framing of the audio reply.                                             *)
(***************************************************************************)
MAX_CHUNK_SIZE == 1048576
CHUNK_THRESHOLD == 1048576

\* Bounds of SpecFrame: payloads of k * MAX_CHUNK_SIZE + d bytes
MaxChunks == 3
FrameDelta == 2

\* range(0, n, step) has this many elements
RangeCount(n, step) == (n + step - 1) \div step

split_audio_data_drop_tail(audio_data, max_chunk_size) ==
    [k \in 1..(BLen(audio_data) \div max_chunk_size) |->
        BSlice(audio_data, (k - 1) * max_chunk_size, (k - 1) * max_chunk_size + max_chunk_size)]

split_audio_data(audio_data, max_chunk_size) ==
    [k \in 1..RangeCount(BLen(audio_data), max_chunk_size) |->
        BSlice(audio_data, (k - 1) * max_chunk_size, (k - 1) * max_chunk_size + max_chunk_size)]

NeedsChunkingGe(raw) == BLen(raw) >= CHUNK_THRESHOLD

\* agent.py:554  len(audio_result.raw) > 1024 * 1024
NeedsChunking(raw) == BLen(raw) > CHUNK_THRESHOLD

\* agent.py:553-560: the units handle sends for an audio result, in order
SendAudio(raw) ==
    IF NeedsChunking(raw)
    THEN LET chunks == split_audio_data(raw, MAX_CHUNK_SIZE)
         IN <<TextUnit("AUDIO_CHUNKS_BEGIN")>>
            \o [k \in 1..Len(chunks) |-> BinUnit(chunks[k])]
            \o <<TextUnit("AUDIO_CHUNKS_END")>>
    ELSE <<BinUnit(raw)>>

(***************************************************************************)
(* SpecFrame: one audio reply is sent unit by unit (every ws.send is a     *)
(* suspension point) and the microphone client reads the units, one per    *)
(* call of process_and_send.                                               *)
(***************************************************************************)
FrameLens ==
    {n \in {k * MAX_CHUNK_SIZE + d : k \in 0..MaxChunks, d \in (0 - FrameDelta)..FrameDelta} : n >= 0}

FrameInit ==
    /\ framer \in {[payload |-> Blob(Src("tts", "A", 1), n), idx |-> 0] : n \in FrameLens}
    /\ wire = <<>>
    /\ receiver = [pos |-> 0, played |-> <<>>, printed |-> <<>>]

\* The next await ws.send(...) of agent.py:553-560
FrameSend ==
    /\ UNCHANGED <<serverVars, segVars, cacheVars, toolVars, micVars>>
    /\ framer.idx < Len(SendAudio(framer.payload))
    /\ wire' = Append(wire, SendAudio(framer.payload)[framer.idx + 1])
    /\ framer' = [framer EXCEPT !.idx = @ + 1]
    /\ UNCHANGED receiver

FrameDone == framer.idx = Len(SendAudio(framer.payload))

\* mic_client.py:134-138: the one unit a call of process_and_send reads is
\* played when it is binary and printed when it is text
RecvResponse(rx, response) ==
    IF response.type = "bin"
    THEN [rx EXCEPT !.pos = @ + 1, !.played = Append(@, response.data)]
    ELSE [rx EXCEPT !.pos = @ + 1, !.printed = Append(@, response.text)]

ClientRecv ==
    /\ UNCHANGED <<serverVars, segVars, cacheVars, toolVars, micVars>>
    /\ receiver.pos < Len(wire)
    /\ receiver' = RecvResponse(receiver, wire[receiver.pos + 1])
    /\ UNCHANGED <<framer, wire>>

FrameNext == FrameSend \/ ClientRecv

(***************************************************************************)
(* SpecSeg: the speech segmenter of mic_stream_loop.  A frame is known by  *)
(* its number in the capture stream; vad.is_speech(frame) is an input      *)
(* decided when the loop takes the frame from audio_queue.                 *)
(***************************************************************************)
SPEECH_START_THRESHOLD == 3
FRAME_DURATION_MS == 30
\* mic_client.py:21  int(1000 / FRAME_DURATION_MS)
SILENCE_THRESHOLD_FRAMES == 1000 \div FRAME_DURATION_MS

\* Bounds of SpecSeg
MaxFrames == 40
MaxQueue == 2

SegInit ==
    /\ audio_queue = <<>>
    /\ in_speech = FALSE
    /\ speech_frames = 0
    /\ silence_frames = 0
    /\ audio_buffer = <<>>
    /\ segments = <<>>
    /\ frameNo = 0
    /\ seen = [curK |-> 0, curS |-> 0, runStart |-> 0, clean |-> TRUE,
               segsBefore |-> 0, maxRun |-> 0]

\* mic_client.py:55-58, the capture callback
audio_callback ==
    /\ UNCHANGED <<serverVars, frameVars, cacheVars, toolVars, micVars>>
    /\ frameNo < MaxFrames
    /\ Len(audio_queue) < MaxQueue
    /\ frameNo' = frameNo + 1
    /\ audio_queue' = Append(audio_queue, frameNo + 1)
    /\ UNCHANGED <<in_speech, speech_frames, silence_frames, audio_buffer, segments, seen>>

StartReachedEarly(n) == n >= SPEECH_START_THRESHOLD - 1

\* mic_client.py:102
StartReached(n) == n >= SPEECH_START_THRESHOLD

BufferAfterFalseStartKept(buf) == buf

\* mic_client.py:105-107: audio_buffer.clear() at a silence frame outside speech
BufferAfterFalseStart(buf) == <<>>

SilenceAfterSpeechKept(n) == n

\* mic_client.py:112: silence_frames = 0 at a speech frame while in speech
SilenceAfterSpeech(n) == 0

KeepBufferingLe(n) == n <= SILENCE_THRESHOLD_FRAMES

\* mic_client.py:115
KeepBuffering(n) == n < SILENCE_THRESHOLD_FRAMES

\* Observation of the input: the trailing run of speech frames and the silence after it
Observe(data, is_speech_frame) ==
    IF is_speech_frame
    THEN IF seen.curK = 0 \/ seen.curS > 0
         THEN [seen EXCEPT !.curK = 1, !.curS = 0, !.runStart = data,
                           !.clean = ~in_speech, !.segsBefore = Len(segments),
                           !.maxRun = Max2(@, 1)]
         ELSE [seen EXCEPT !.curK = @ + 1, !.maxRun = Max2(@, seen.curK + 1)]
    ELSE [seen EXCEPT !.curS = @ + 1]

\* mic_client.py:96-127, one iteration of the loop that finds a frame queued
mic_stream_loop(is_speech_frame) ==
    /\ UNCHANGED <<serverVars, frameVars, cacheVars, toolVars, micVars>>
    /\ audio_queue # <<>>
    /\ LET data == Head(audio_queue) IN
        /\ audio_queue' = Tail(audio_queue)
        /\ seen' = Observe(data, is_speech_frame)
        /\ IF ~in_speech
           THEN IF is_speech_frame
                THEN /\ speech_frames' = speech_frames + 1
                     /\ audio_buffer' = Append(audio_buffer, data)
                     /\ IF StartReached(speech_frames + 1)
                        THEN in_speech' = TRUE /\ silence_frames' = 0
                        ELSE UNCHANGED <<in_speech, silence_frames>>
                     /\ UNCHANGED segments
                ELSE /\ speech_frames' = 0
                     /\ audio_buffer' = BufferAfterFalseStart(audio_buffer)
                     /\ UNCHANGED <<in_speech, silence_frames, segments>>
           ELSE IF is_speech_frame
                THEN /\ audio_buffer' = Append(audio_buffer, data)
                     /\ silence_frames' = SilenceAfterSpeech(silence_frames)
                     /\ UNCHANGED <<in_speech, speech_frames, segments>>
                ELSE IF KeepBuffering(silence_frames + 1)
                     THEN /\ silence_frames' = silence_frames + 1
                          /\ audio_buffer' = Append(audio_buffer, data)
                          /\ UNCHANGED <<in_speech, speech_frames, segments>>
                     ELSE /\ in_speech' = FALSE
                          /\ audio_buffer' = <<>>
                          /\ speech_frames' = 0
                          /\ silence_frames' = 0
                          \* combined_data = b"".join(audio_buffer); sent when non-empty
                          /\ segments' = IF Len(audio_buffer) > 0
                                         THEN Append(segments, audio_buffer)
                                         ELSE segments
    /\ UNCHANGED frameNo

SegNext == audio_callback \/ \E is_speech_frame \in BOOLEAN : mic_stream_loop(is_speech_frame)

(***************************************************************************)
(* SpecCache: llm_cache, a dict in insertion order, as a sequence of       *)
(* [key, value] entries.                                                   *)
(***************************************************************************)
CACHE_CAPACITY == 100

\* Bound of SpecCache: prompts are <<1>> .. <<MaxKeys>>
MaxKeys == 102
\* Prompts that are put again and looked up; the others are put once
HotKeys == {1, 2, 101}
Responses == {<<"r1">>, <<"r2">>}
SYSTEM_PROMPT == <<"sys">>

DictKeys(d) == {d[i].key : i \in 1..Len(d)}

\* k in d
HasKey(d, k) == \E i \in 1..Len(d) : d[i].key = k

\* d.get(k)
DictGet(d, k) ==
    IF HasKey(d, k)
    THEN LET i == CHOOSE j \in 1..Len(d) : d[j].key = k IN Some(d[i].value)
    ELSE None

DictSetDefault(d, k, v) ==
    IF HasKey(d, k) THEN d ELSE Append(d, [key |-> k, value |-> v])

\* d[k] = v: an existing key keeps its place, a new key goes last
DictSet(d, k, v) ==
    IF HasKey(d, k)
    THEN [i \in 1..Len(d) |-> IF d[i].key = k THEN [key |-> k, value |-> v] ELSE d[i]]
    ELSE Append(d, [key |-> k, value |-> v])

\* agent.py:132-133; the digest is taken to be free of collisions, so the key
\* is the string that is hashed
get_cache_key(prompt, system_prompt) == system_prompt \o <<"|">> \o prompt

\* agent.py:135-137
get_cached_response(cache, prompt, system_prompt) ==
    DictGet(cache, get_cache_key(prompt, system_prompt))

EvictSecondOldest(d) ==
    IF Len(d) > CACHE_CAPACITY THEN <<Head(d)>> \o Tail(Tail(d)) ELSE d

EvictNewest(d) == IF Len(d) > CACHE_CAPACITY THEN SubSeq(d, 1, Len(d) - 1) ELSE d

\* agent.py:142-144: del llm_cache[next(iter(llm_cache))] when over capacity
EvictOldest(d) == IF Len(d) > CACHE_CAPACITY THEN Tail(d) ELSE d

\* agent.py:139-144, the cache after cache_response(prompt, system_prompt, response)
cache_response(cache, prompt, system_prompt, response) ==
    EvictOldest(DictSet(cache, get_cache_key(prompt, system_prompt), response))

\* Nothing has been observed of the cache yet
CacheObsIdle ==
    [lastPut |-> [k \in 1..MaxKeys |-> None], first |-> 0,
     distinct |-> 0, reput |-> FALSE, got |-> None,
     born |-> [k \in 1..MaxKeys |-> 0], clock |-> 0, hits |-> {}]

CacheInit ==
    /\ llm_cache = <<>>
    /\ cacheObs = CacheObsIdle

KeyOf(k) == get_cache_key(<<k>>, SYSTEM_PROMPT)

\* One call of cache_response.  cacheObs records the calls: the last response
\* put for each prompt, the first prompt put, how many distinct prompts were
\* put, whether the first prompt was put again after it had left the cache,
\* the number of puts that inserted a fingerprint not present (clock), for each
\* prompt the count at its latest such insertion (born), and the prompts that
\* a lookup has found (hits)
CachePut(k, response) ==
    /\ UNCHANGED <<serverVars, frameVars, segVars, toolVars, micVars>>
    /\ \/ k = cacheObs.distinct + 1
       \/ k \in HotKeys /\ k <= cacheObs.distinct
    /\ k \in HotKeys \/ response = <<"r1">>
    /\ llm_cache' = cache_response(llm_cache, <<k>>, SYSTEM_PROMPT, response)
    /\ cacheObs' = [cacheObs EXCEPT
            !.lastPut[k] = Some(response),
            !.first = IF @ = 0 THEN k ELSE @,
            !.distinct = IF k = @ + 1 THEN k ELSE @,
            !.reput = @ \/ (k = cacheObs.first /\ DictGet(llm_cache, KeyOf(k)) = None),
            !.got = Some([op |-> "put", key |-> k, res |-> Some(response)]),
            !.clock = IF DictGet(llm_cache, KeyOf(k)) = None THEN @ + 1 ELSE @,
            !.born[k] = IF DictGet(llm_cache, KeyOf(k)) = None
                        THEN cacheObs.clock + 1 ELSE @]

\* One call of get_cached_response
CacheGet(k) ==
    /\ UNCHANGED <<serverVars, frameVars, segVars, toolVars, micVars>>
    /\ k \in HotKeys
    /\ cacheObs' = [cacheObs EXCEPT
            !.got = Some([op |-> "get", key |-> k,
                          res |-> get_cached_response(llm_cache, <<k>>, SYSTEM_PROMPT)]),
            !.hits = IF get_cached_response(llm_cache, <<k>>, SYSTEM_PROMPT) # None
                     THEN @ \cup {k} ELSE @]
    /\ UNCHANGED llm_cache

CacheNext ==
    \/ \E k \in 1..MaxKeys, response \in Responses : CachePut(k, response)
    \/ \E k \in 1..MaxKeys : CacheGet(k)

(***************************************************************************)
(* Spec: the WebSocket server of agent.py.  Texts are sequences of tokens. *)
(***************************************************************************)
Conns == {"A", "B"}

\* Bounds of Spec: units the clients send in all, and units waiting in a connection
MaxSends == 5
MaxInbox == 2

Whitespace == {" ", "\n", "\t"}

RECURSIVE LStrip(_)
LStrip(t) == IF t # <<>> /\ Head(t) \in Whitespace THEN LStrip(Tail(t)) ELSE t

RECURSIVE RStrip(_)
RStrip(t) ==
    IF t # <<>> /\ t[Len(t)] \in Whitespace THEN RStrip(SubSeq(t, 1, Len(t) - 1)) ELSE t

\* str.strip()
Strip(t) == RStrip(LStrip(t))

UpperTok(x) == CASE x = "end" -> "END" [] x = "hello" -> "HELLO" [] OTHER -> x

\* str.upper()
Upper(t) == [i \in 1..Len(t) |-> UpperTok(t[i])]

IsEndNoStrip(text) == Upper(text) = <<"END">>

\* agent.py:513  msg.strip().upper() == "END"
IsEnd(text) == Upper(Strip(text)) = <<"END">>

\* What a client may send
ClientTexts == {<<"END">>, <<" ", "end", "\n">>, <<"hello">>}
InLens == {0, 960}

\* The canned texts of agent.py:184, 191 and 266
NO_SPEECH_TEXT == <<"ne_udalos_raspoznat_rech">>
STT_ERROR_TEXT == <<"oshibka_raspoznavaniya_rechi">>
LLM_ERROR_TEXT == <<"izvinite_proizoshla_oshibka">>

\* agent.py:562, the 44-byte WAV header sent when there is no audio
SILENCE_WAV == Blob(Src("silence", "-", 0), 44)

\* Replies of the remote stage services
TextR(t) == [type |-> "text", text |-> t, data |-> <<>>]
BinR(b)  == [type |-> "bin", text |-> <<>>, data |-> b]
FailR    == [type |-> "fail", text |-> <<>>, data |-> <<>>]

Ok(v)  == [ok |-> TRUE, val |-> v]
Raised == [ok |-> FALSE, val |-> <<>>]

stt_vosk_any_text(resp) == IF resp.type = "text" THEN Ok(resp.text) ELSE Raised

\* agent.py:61-72
stt_vosk(resp) ==
    IF resp.type = "text" /\ ~(resp.text # <<>> /\ Head(resp.text) = "ERROR")
    THEN Ok(resp.text) ELSE Raised

\* agent.py:94-106
tts_client(resp) == IF resp.type = "bin" THEN Ok(resp.data) ELSE Raised

AudioMsg(raw, sr) == [raw |-> raw, sr |-> sr]

\* agent.py:45-50
AgentState(audio) == [audio |-> audio, text |-> None, tool_calls |-> None, tool_results |-> None]
NoState == AgentState(None)

\* Python truth of an Optional[list] / Optional[dict]
Truthy(opt) == opt # None /\ opt[1] # <<>>

SttReplies == {TextR(<<"privet">>), TextR(<<>>), TextR(NO_SPEECH_TEXT \o <<"\n">>),
               TextR(<<"ERROR", "no model">>), FailR}
TtsLens == {1000, CHUNK_THRESHOLD + 1}
TtsReplies(c, n) == {BinR(Blob(Src("tts", c, n), len)) : len \in TtsLens} \cup {TextR(<<"ERROR">>), FailR}

stt_node_keep_empty(st, resp) ==
    IF st.audio = None THEN st
    ELSE LET r == stt_vosk(resp) IN
         IF r.ok THEN [st EXCEPT !.text = Some(r.val)]
         ELSE [st EXCEPT !.text = Some(STT_ERROR_TEXT)]

stt_node_drop_error(st, resp) ==
    IF st.audio = None THEN st
    ELSE LET r == stt_vosk(resp) IN
         IF r.ok /\ r.val # <<>> /\ Strip(r.val) # NO_SPEECH_TEXT
         THEN [st EXCEPT !.text = Some(r.val)]
         ELSE [st EXCEPT !.text = None]

\* agent.py:179-193
stt_node(st, resp) ==
    IF st.audio = None THEN st
    ELSE LET r == stt_vosk(resp) IN
         IF r.ok
         THEN IF r.val # <<>> /\ Strip(r.val) # NO_SPEECH_TEXT
              THEN [st EXCEPT !.text = Some(r.val)]
              ELSE [st EXCEPT !.text = None]
         ELSE [st EXCEPT !.text = Some(STT_ERROR_TEXT)]

ToolCall(name, id) == [name |-> name, args |-> <<>>, id |-> id]

\* agent.py:271-340: the first tool, in the order of the patterns, that the text mentions
ToolPatterns == <<"get_time", "get_weather", "set_timer", "set_notification", "call_contact">>
Mentions(content, tool) == \E i \in 1..Len(content) : content[i] = tool
parse_tool_mentions(content) ==
    IF \E k \in 1..Len(ToolPatterns) : Mentions(content, ToolPatterns[k])
    THEN LET k == CHOOSE k \in 1..Len(ToolPatterns) :
                    /\ Mentions(content, ToolPatterns[k])
                    /\ \A j \in 1..(k - 1) : ~Mentions(content, ToolPatterns[j])
         IN Some(<<ToolCall(ToolPatterns[k], "tool_" \o ToolPatterns[k])>>)
    ELSE None

\* What the reasoning service may answer
LlmReply(content, calls) == [raised |-> FALSE, content |-> content, tool_calls |-> calls]
LlmResults ==
    { LlmReply(<<"r1">>, <<>>),
      LlmReply(<<"skazhu", "get_time">>, <<>>),
      LlmReply(<<>>, <<ToolCall("get_time", "a")>>),
      LlmReply(<<>>, <<ToolCall("get_time", "a"), ToolCall("open_door", "b")>>),
      LlmReply(<<>>, <<ToolCall("get_time", "a"), ToolCall("", "b")>>),
      [raised |-> TRUE, content |-> <<>>, tool_calls |-> <<>>] }

llm_node_caches_apology(st, cache, res) ==
    IF st.text = None THEN [st |-> st, cache |-> cache]
    ELSE LET txt == st.text[1]
             cached == get_cached_response(cache, txt, SYSTEM_PROMPT)
         IN IF cached # None /\ cached[1] # <<>>
            THEN [st |-> [st EXCEPT !.text = cached], cache |-> cache]
            ELSE IF res.raised
            THEN [st |-> [st EXCEPT !.text = Some(LLM_ERROR_TEXT)],
                  cache |-> cache_response(cache, txt, SYSTEM_PROMPT, LLM_ERROR_TEXT)]
            ELSE IF res.tool_calls # <<>>
            THEN [st |-> [st EXCEPT !.tool_calls = Some(res.tool_calls)], cache |-> cache]
            ELSE IF parse_tool_mentions(res.content) # None
            THEN [st |-> [st EXCEPT !.tool_calls = parse_tool_mentions(res.content)],
                  cache |-> cache]
            ELSE [st |-> [st EXCEPT !.text = Some(res.content)],
                  cache |-> cache_response(cache, txt, SYSTEM_PROMPT, res.content)]

llm_node_raise_keeps_text(st, cache, res) ==
    IF st.text = None THEN [st |-> st, cache |-> cache]
    ELSE LET txt == st.text[1]
             cached == get_cached_response(cache, txt, SYSTEM_PROMPT)
         IN IF cached # None /\ cached[1] # <<>>
            THEN [st |-> [st EXCEPT !.text = cached], cache |-> cache]
            ELSE IF res.raised
            THEN [st |-> st, cache |-> cache]
            ELSE IF res.tool_calls # <<>>
            THEN [st |-> [st EXCEPT !.tool_calls = Some(res.tool_calls)], cache |-> cache]
            ELSE IF parse_tool_mentions(res.content) # None
            THEN [st |-> [st EXCEPT !.tool_calls = parse_tool_mentions(res.content)],
                  cache |-> cache]
            ELSE [st |-> [st EXCEPT !.text = Some(res.content)],
                  cache |-> cache_response(cache, txt, SYSTEM_PROMPT, res.content)]

\* agent.py:195-269: the state and the cache after llm_node
llm_node(st, cache, res) ==
    IF st.text = None THEN [st |-> st, cache |-> cache]
    ELSE LET txt == st.text[1]
             cached == get_cached_response(cache, txt, SYSTEM_PROMPT)
         IN IF cached # None /\ cached[1] # <<>>
            THEN [st |-> [st EXCEPT !.text = cached], cache |-> cache]
            ELSE IF res.raised
            THEN [st |-> [st EXCEPT !.text = Some(LLM_ERROR_TEXT)], cache |-> cache]
            ELSE IF res.tool_calls # <<>>
            THEN [st |-> [st EXCEPT !.tool_calls = Some(res.tool_calls)], cache |-> cache]
            ELSE IF parse_tool_mentions(res.content) # None
            THEN [st |-> [st EXCEPT !.tool_calls = parse_tool_mentions(res.content)],
                  cache |-> cache]
            ELSE [st |-> [st EXCEPT !.text = Some(res.content)],
                  cache |-> cache_response(cache, txt, SYSTEM_PROMPT, res.content)]

\* agent.py:343-391: LLMManager has no stream_response_with_early_synthesis, so
\* after its own cache lookup the node hands over to llm_node
llm_streaming_node(st, cache, res) ==
    IF st.text = None THEN [st |-> st, cache |-> cache]
    ELSE LET cached == get_cached_response(cache, st.text[1], SYSTEM_PROMPT)
         IN IF cached # None /\ cached[1] # <<>>
            THEN [st |-> [st EXCEPT !.text = cached], cache |-> cache]
            ELSE llm_node(st, cache, res)

\* agent.py:197-209, 352-361: the reasoning service is asked when there is a text
\* and the cache has no answer for it
LlmInvoked(st, cache) ==
    /\ st.text # None
    /\ LET cached == get_cached_response(cache, st.text[1], SYSTEM_PROMPT)
       IN ~(cached # None /\ cached[1] # <<>>)

\* mqtt_tools.py:351-369
ToolNames == {"get_time", "set_timer", "set_notification", "get_weather", "call_contact"}
ToolOutputs == {<<"gotovo">>, <<>>}
execute_tool_any(tool_name, out) == out

execute_tool(tool_name, out) ==
    IF tool_name \in ToolNames THEN out ELSE <<"instrument", tool_name, "ne_naiden">>

RECURSIVE DictFromPairs(_)
DictFromPairs(pairs) ==
    IF pairs = <<>> THEN <<>>
    ELSE DictSet(DictFromPairs(SubSeq(pairs, 1, Len(pairs) - 1)),
                 pairs[Len(pairs)].key, pairs[Len(pairs)].value)

\* agent.py:410-412, 431: the task of a call without a name returns None, and
\* `for id_, res in results` raises TypeError when it unpacks that None
tools_node_raises(st) ==
    Truthy(st.tool_calls) /\ \E k \in 1..Len(st.tool_calls[1]) : st.tool_calls[1][k].name = ""

\* agent.py:393-434; outs[k] is what the bus-backed tool of call k returns
tools_node(st, outs) ==
    IF ~Truthy(st.tool_calls) THEN st
    ELSE LET calls == st.tool_calls[1]
             results == [k \in 1..Len(calls) |->
                            [key |-> calls[k].id, value |-> execute_tool(calls[k].name, outs[k])]]
         IN [st EXCEPT !.tool_results = Some(DictFromPairs(results))]

RECURSIVE JoinLines(_)
JoinLines(vals) ==
    IF vals = <<>> THEN <<>>
    ELSE IF Len(vals) = 1 THEN vals[1]
    ELSE vals[1] \o <<"\n">> \o JoinLines(Tail(vals))

\* agent.py:436-452
tool_results_processor(st) ==
    IF ~Truthy(st.tool_results) THEN st
    ELSE LET d == st.tool_results[1]
             result == IF Len(d) = 1 THEN d[1].value
                       ELSE JoinLines([k \in 1..Len(d) |-> d[k].value])
         IN [st EXCEPT !.text = Some(result), !.tool_calls = None, !.tool_results = None]

\* agent.py:454-463
tts_node(st, resp) ==
    IF st.text = None THEN st
    ELSE LET r == tts_client(resp) IN
         IF r.ok THEN [st EXCEPT !.audio = Some(AudioMsg(r.val, 48000))] ELSE st

tools_router_no_tools(st) ==
    IF Truthy(st.tool_results) THEN "tool_results_processor" ELSE "tts"

\* agent.py:466-471
tools_router(st) ==
    IF Truthy(st.tool_calls) THEN "tools"
    ELSE IF Truthy(st.tool_results) THEN "tool_results_processor"
    ELSE "tts"

\* agent.py:473-479; LLM_STREAMING is read from the environment
llm_type_router(st, use_streaming) ==
    IF st.text = None THEN "llm"
    ELSE IF use_streaming THEN "llm_streaming" ELSE "llm"

AudioFromResultField(st) == st.audio

\* agent.py:530-534: app.ainvoke returns the channel values (audio, text,
\* tool_calls, tool_results); none of them has an attribute named audio
AudioFromResult(st) == None

\* agent.py:538-550: the text of the first channel value that yields a non-empty one
TextToSpeak(st) == IF st.text # None /\ st.text[1] # <<>> THEN st.text ELSE None

InPipeline(c) == hpc[c] \notin {"recv", "closed"}

\* The server leaves the variables of the other specifications alone
ServerOnly == UNCHANGED <<frameVars, segVars, cacheObs, toolVars, micVars>>

\* Numbers of the inbound binary units a bytes value is made of
UnitNos(b) == {b[i].src.no : i \in {j \in 1..Len(b) : b[j].src.kind = "in"}}

\* handled[c] describes the last unit the handler of c took; its field calls is
\* None, or Some of the nodes the run of the last END went through so far, each
\* with whether it called its remote service, whether that call returned, and a
\* text: what the transcription service answered, and for the other nodes
\* state.text when the node is left (for handle, the text it synthesizes); a
\* stage client's visit also has the reply it read, if it made the call
NoneHandled == [kind |-> "none", no |-> 0, outcome |-> "none", during |-> FALSE,
                own |-> FALSE, others |-> FALSE, prevEnd |-> 0, audio |-> <<>>,
                calls |-> None, text |-> <<>>]

ServerStart(h) ==
    /\ processing_lock = FALSE
    /\ inbox = [c \in Conns |-> <<>>]
    /\ audio_chunks = [c \in Conns |-> <<>>]
    /\ hpc = [c \in Conns |-> "recv"]
    /\ state = [c \in Conns |-> NoState]
    /\ sent = [c \in Conns |-> <<>>]
    /\ alive = [c \in Conns |-> TRUE]
    /\ handled = [c \in Conns |-> h]
    /\ msgNo = [c \in Conns |-> 0]
    /\ inflight = [c \in Conns |-> 0]
    /\ processed = [c \in Conns |-> {}]
    /\ discarded = [c \in Conns |-> {}]

ServerInit == ServerStart(NoneHandled)

(***************************************************************************)
(* The clients.                                                            *)
(***************************************************************************)
ClientUnits(c, no, texts, lens) ==
    {[type |-> "bin", text |-> <<>>, data |-> Blob(Src("in", c, no), n)] : n \in lens}
    \cup {[type |-> "text", text |-> t, data |-> <<>>] : t \in texts}

\* The client sends one unit; it waits in the connection until handle iterates to it
ClientSend(c, u) ==
    /\ ServerOnly
    /\ alive[c]
    /\ msgNo["A"] + msgNo["B"] < MaxSends
    /\ Len(inbox[c]) < MaxInbox
    /\ msgNo' = [msgNo EXCEPT ![c] = @ + 1]
    /\ inbox' = [inbox EXCEPT ![c] =
                    Append(@, [type |-> u.type, text |-> u.text, data |-> u.data,
                               no |-> msgNo[c] + 1, during |-> InPipeline(c)])]
    /\ UNCHANGED <<processing_lock, audio_chunks, hpc, state, sent, alive, handled,
                   inflight, processed, discarded, llm_cache>>

\* The peer closes the connection
ClientClose(c) ==
    /\ ServerOnly
    /\ alive[c]
    /\ alive' = [alive EXCEPT ![c] = FALSE]
    /\ UNCHANGED <<processing_lock, inbox, audio_chunks, hpc, state, sent, handled,
                   msgNo, inflight, processed, discarded, llm_cache>>

(***************************************************************************)
(* handle(ws), agent.py:507-572.                                           *)
(***************************************************************************)
Note(c, msg, outcome, audio) ==
    [kind |-> IF IsEnd(msg.text) THEN "end" ELSE "text",
     no |-> msg.no, outcome |-> outcome, during |-> msg.during,
     own |-> inflight[c] > 0,
     others |-> \E d \in Conns \ {c} : inflight[d] > 0,
     prevEnd |-> IF handled[c].kind = "end" THEN handled[c].no ELSE handled[c].prevEnd,
     audio |-> audio,
     calls |-> IF handled[c].calls = None THEN None ELSE Some(<<>>),
     text |-> msg.text]

Visit(node, called, ok, text) ==
    [node |-> node, called |-> called, ok |-> ok, text |-> text, reply |-> None]
ClientVisit(node, called, ok, text, resp) ==
    [node |-> node, called |-> called, ok |-> ok, text |-> text,
     reply |-> IF called THEN Some(resp) ELSE None]
Logged(log, visit) == IF log = None THEN None ELSE Some(Append(log[1], visit))
Called(c, visit) == handled' = [handled EXCEPT ![c].calls = Logged(@, visit)]

\* agent.py:511-512
HandleBinary(c) ==
    /\ ServerOnly
    /\ hpc[c] = "recv" /\ inbox[c] # <<>>
    /\ LET msg == Head(inbox[c]) IN
        /\ msg.type = "bin"
        /\ audio_chunks' = [audio_chunks EXCEPT ![c] = Append(@, msg.data)]
    /\ inbox' = [inbox EXCEPT ![c] = Tail(@)]
    /\ UNCHANGED <<processing_lock, hpc, state, sent, alive, handled, msgNo, inflight,
                   processed, discarded, llm_cache>>

\* The handler's coroutine ends: a send on a closed connection raised, agent.py:571
HandlerDies(c, msg, outcome) ==
    /\ hpc' = [hpc EXCEPT ![c] = "closed"]
    /\ sent' = [sent EXCEPT ![c] = <<>>]
    /\ handled' = [handled EXCEPT ![c] = Note(c, msg, outcome, <<>>)]
    /\ UNCHANGED audio_chunks

\* agent.py:569-570
HandleOtherText(c) ==
    /\ ServerOnly
    /\ hpc[c] = "recv" /\ inbox[c] # <<>>
    /\ LET msg == Head(inbox[c]) IN
        /\ msg.type = "text" /\ ~IsEnd(msg.text)
        /\ IF alive[c]
           THEN /\ sent' = [sent EXCEPT ![c] = <<TextUnit("ACK")>>]
                /\ handled' = [handled EXCEPT ![c] = Note(c, msg, "ack", <<>>)]
                /\ UNCHANGED <<hpc, audio_chunks>>
           ELSE HandlerDies(c, msg, "send_failed")
    /\ inbox' = [inbox EXCEPT ![c] = Tail(@)]
    /\ UNCHANGED <<processing_lock, state, alive, msgNo, inflight, processed,
                   discarded, llm_cache>>

BufferAfterBusyKept(chunks) == chunks

\* agent.py:516
BufferAfterBusy(chunks) == <<>>

\* agent.py:513-517: END while the lock is held
HandleEndBusy(c) ==
    /\ ServerOnly
    /\ hpc[c] = "recv" /\ inbox[c] # <<>>
    /\ LET msg == Head(inbox[c]) IN
        /\ msg.type = "text" /\ IsEnd(msg.text)
        /\ processing_lock
        /\ IF alive[c]
           THEN /\ sent' = [sent EXCEPT ![c] = <<TextUnit("BUSY")>>]
                /\ audio_chunks' = [audio_chunks EXCEPT ![c] = BufferAfterBusy(@)]
                /\ handled' = [handled EXCEPT ![c] = Note(c, msg, "busy", BJoin(audio_chunks[c]))]
                /\ discarded' = [discarded EXCEPT ![c] = @ \cup UnitNos(BJoin(audio_chunks[c]))]
                /\ UNCHANGED hpc
           ELSE HandlerDies(c, msg, "send_failed") /\ UNCHANGED discarded
    /\ inbox' = [inbox EXCEPT ![c] = Tail(@)]
    /\ UNCHANGED <<processing_lock, state, alive, msgNo, inflight, processed, llm_cache>>

\* agent.py:519-522: END with nothing buffered
HandleEndEmpty(c) ==
    /\ ServerOnly
    /\ hpc[c] = "recv" /\ inbox[c] # <<>>
    /\ LET msg == Head(inbox[c]) IN
        /\ msg.type = "text" /\ IsEnd(msg.text)
        /\ ~processing_lock
        /\ BJoin(audio_chunks[c]) = <<>>
        /\ IF alive[c]
           THEN /\ sent' = [sent EXCEPT ![c] = <<TextUnit("ERROR: No audio data")>>]
                /\ handled' = [handled EXCEPT ![c] = Note(c, msg, "empty", <<>>)]
                /\ UNCHANGED <<hpc, audio_chunks>>
           ELSE HandlerDies(c, msg, "send_failed")
    /\ inbox' = [inbox EXCEPT ![c] = Tail(@)]
    /\ UNCHANGED <<processing_lock, state, alive, msgNo, inflight, processed,
                   discarded, llm_cache>>

\* A handler that starts the run as a task of its own and goes on receiving
AdmitDetached(c, msg, audio_data) ==
    /\ hpc' = hpc
    /\ state' = [state EXCEPT ![c] = AgentState(Some(AudioMsg(audio_data, 16000)))]
    /\ inflight' = [inflight EXCEPT ![c] = @ + 1]
    /\ processed' = [processed EXCEPT ![c] = @ \cup UnitNos(audio_data)]
    /\ handled' = [handled EXCEPT ![c] = Note(c, msg, "admitted", audio_data)]
    /\ sent' = [sent EXCEPT ![c] = <<>>]
    /\ UNCHANGED processing_lock

\* A handler that goes on to the run and takes the lock at some later step
AdmitUnlocked(c, msg, audio_data) ==
    /\ hpc' = [hpc EXCEPT ![c] = "stt"]
    /\ state' = [state EXCEPT ![c] = AgentState(Some(AudioMsg(audio_data, 16000)))]
    /\ inflight' = [inflight EXCEPT ![c] = @ + 1]
    /\ processed' = [processed EXCEPT ![c] = @ \cup UnitNos(audio_data)]
    /\ handled' = [handled EXCEPT ![c] = Note(c, msg, "admitted", audio_data)]
    /\ sent' = [sent EXCEPT ![c] = <<>>]
    /\ UNCHANGED processing_lock

\* agent.py:524-527: the lock is taken and the handler awaits app.ainvoke(state)
Admit(c, msg, audio_data) ==
    /\ processing_lock' = TRUE
    /\ hpc' = [hpc EXCEPT ![c] = "stt"]
    /\ state' = [state EXCEPT ![c] = AgentState(Some(AudioMsg(audio_data, 16000)))]
    /\ inflight' = [inflight EXCEPT ![c] = @ + 1]
    /\ processed' = [processed EXCEPT ![c] = @ \cup UnitNos(audio_data)]
    /\ handled' = [handled EXCEPT ![c] = Note(c, msg, "admitted", audio_data)]
    /\ sent' = [sent EXCEPT ![c] = <<>>]

\* agent.py:513-527: END with audio buffered and the lock free
HandleEndAdmit(c) ==
    /\ ServerOnly
    /\ hpc[c] = "recv" /\ inbox[c] # <<>>
    /\ LET msg == Head(inbox[c]) IN
        /\ msg.type = "text" /\ IsEnd(msg.text)
        /\ ~processing_lock
        /\ BJoin(audio_chunks[c]) # <<>>
        /\ Admit(c, msg, BJoin(audio_chunks[c]))
    /\ inbox' = [inbox EXCEPT ![c] = Tail(@)]
    /\ UNCHANGED <<audio_chunks, alive, msgNo, discarded, llm_cache>>

\* async for msg in ws ends: the connection is closed and nothing is left to iterate
HandlerExit(c) ==
    /\ ServerOnly
    /\ hpc[c] = "recv" /\ inbox[c] = <<>> /\ ~alive[c]
    /\ hpc' = [hpc EXCEPT ![c] = "closed"]
    /\ UNCHANGED <<processing_lock, inbox, audio_chunks, state, sent, alive, handled,
                   msgNo, inflight, processed, discarded, llm_cache>>

(***************************************************************************)
(* The nodes of the graph, agent.py:482-499; app.ainvoke runs them one     *)
(* after the other and each one awaits its remote call.                    *)
(***************************************************************************)
Stays == <<processing_lock, inbox, audio_chunks, sent, alive, msgNo,
           inflight, processed, discarded>>

SttStep(c, resp, use_streaming) ==
    /\ ServerOnly
    /\ hpc[c] = "stt"
    /\ LET st == stt_node(state[c], resp) IN
        /\ state' = [state EXCEPT ![c] = st]
        \* agent.py:491
        /\ hpc' = [hpc EXCEPT ![c] =
                      IF st.text # None THEN llm_type_router(st, use_streaming) ELSE "tts"]
    /\ Called(c, ClientVisit("stt", state[c].audio # None, stt_vosk(resp).ok,
                             IF stt_vosk(resp).ok THEN Some(stt_vosk(resp).val) ELSE None,
                             resp))
    /\ UNCHANGED <<Stays, llm_cache>>

LlmStep(c, res) ==
    /\ ServerOnly
    /\ hpc[c] \in {"llm", "llm_streaming"}
    /\ LET r == IF hpc[c] = "llm" THEN llm_node(state[c], llm_cache, res)
                ELSE llm_streaming_node(state[c], llm_cache, res) IN
        /\ state' = [state EXCEPT ![c] = r.st]
        /\ llm_cache' = r.cache
        /\ hpc' = [hpc EXCEPT ![c] = tools_router(r.st)]
        /\ Called(c, Visit(hpc[c], LlmInvoked(state[c], llm_cache), ~res.raised, r.st.text))
    /\ UNCHANGED Stays

ToolsStep(c, outs) ==
    /\ ServerOnly
    /\ hpc[c] = "tools"
    /\ Len(outs) = Len(state[c].tool_calls[1])
    /\ IF tools_node_raises(state[c])
       THEN \* the exception leaves app.ainvoke for the except branch of handle
            /\ hpc' = [hpc EXCEPT ![c] = "raised"]
            /\ Called(c, Visit("tools", TRUE, FALSE, state[c].text))
            /\ UNCHANGED state
       ELSE /\ state' = [state EXCEPT ![c] = tools_node(state[c], outs)]
            \* agent.py:495
            /\ hpc' = [hpc EXCEPT ![c] = "tool_results_processor"]
            /\ Called(c, Visit("tools", TRUE, TRUE, state[c].text))
    /\ UNCHANGED <<Stays, llm_cache>>

ToolResultsStep(c) ==
    /\ ServerOnly
    /\ hpc[c] = "tool_results_processor"
    /\ state' = [state EXCEPT ![c] = tool_results_processor(state[c])]
    \* agent.py:496
    /\ hpc' = [hpc EXCEPT ![c] = "tts"]
    /\ Called(c, Visit("tool_results_processor", FALSE, TRUE,
                       tool_results_processor(state[c]).text))
    /\ UNCHANGED <<Stays, llm_cache>>

TtsStep(c, resp) ==
    /\ ServerOnly
    /\ hpc[c] = "tts"
    /\ state' = [state EXCEPT ![c] = tts_node(state[c], resp)]
    \* agent.py:497: END of the graph, app.ainvoke returns
    /\ hpc' = [hpc EXCEPT ![c] = "result"]
    /\ Called(c, ClientVisit("tts", state[c].text # None, tts_client(resp).ok,
                             state[c].text, resp))
    /\ UNCHANGED <<Stays, llm_cache>>

LockAfterRunHeld(reply_sent) == TRUE

LockAfterRunHeldOnFailure(reply_sent) == ~reply_sent

\* agent.py:524: leaving the async with block releases the lock, also when the
\* block is left by an exception of ws.send
LockAfterRun(reply_sent) == FALSE

BufferAfterRunKept(chunks) == chunks

\* agent.py:568
BufferAfterRun(chunks) == <<>>

\* agent.py:528-568: the rest of the async with block, the release of the lock
\* and the reset of the buffer
HandleResult(c, resp) ==
    /\ ServerOnly
    /\ hpc[c] = "result"
    /\ LET st == state[c]
           text_to_speak == IF AudioFromResult(st) = None THEN TextToSpeak(st) ELSE None
           synth == IF text_to_speak # None THEN tts_client(resp) ELSE Raised
           audio_result == IF AudioFromResult(st) # None THEN AudioFromResult(st)
                           ELSE IF text_to_speak # None /\ synth.ok
                           THEN Some(AudioMsg(synth.val, 48000))
                           ELSE None
           failed == text_to_speak # None /\ ~synth.ok
           visit == ClientVisit("handle", text_to_speak # None, synth.ok, text_to_speak, resp)
           units == IF failed THEN <<TextUnit("ERROR: TTS error")>>
                    ELSE IF audio_result # None THEN SendAudio(audio_result[1].raw)
                    ELSE <<BinUnit(SILENCE_WAV)>>
       IN /\ text_to_speak = None => resp = FailR
          /\ IF alive[c]
             THEN /\ sent' = [sent EXCEPT ![c] = units]
                  /\ hpc' = [hpc EXCEPT ![c] = "recv"]
                  /\ audio_chunks' = [audio_chunks EXCEPT ![c] = BufferAfterRun(@)]
                  /\ handled' = [handled EXCEPT
                                    ![c].outcome = IF failed THEN "error" ELSE "replied",
                                    ![c].calls = Logged(@, visit)]
             ELSE /\ sent' = [sent EXCEPT ![c] = <<>>]
                  /\ hpc' = [hpc EXCEPT ![c] = "closed"]
                  /\ handled' = [handled EXCEPT ![c].outcome = "send_failed",
                                                 ![c].calls = Logged(@, visit)]
                  /\ UNCHANGED audio_chunks
    /\ processing_lock' = LockAfterRun(alive[c])
    /\ inflight' = [inflight EXCEPT ![c] = @ - 1]
    /\ state' = [state EXCEPT ![c] = NoState]
    /\ UNCHANGED <<inbox, alive, msgNo, processed, discarded, llm_cache>>

\* agent.py:564-568: an exception of a node has left app.ainvoke; handle sends
\* the ERROR text, the lock is released and the buffer reset
HandleRaised(c) ==
    /\ ServerOnly
    /\ hpc[c] = "raised"
    /\ LET visit == Visit("handle", FALSE, FALSE, None) IN
       IF alive[c]
       THEN /\ sent' = [sent EXCEPT ![c] = <<TextUnit("ERROR: cannot unpack")>>]
            /\ hpc' = [hpc EXCEPT ![c] = "recv"]
            /\ audio_chunks' = [audio_chunks EXCEPT ![c] = BufferAfterRun(@)]
            /\ handled' = [handled EXCEPT ![c].outcome = "error",
                                           ![c].calls = Logged(@, visit)]
       ELSE /\ sent' = [sent EXCEPT ![c] = <<>>]
            /\ hpc' = [hpc EXCEPT ![c] = "closed"]
            /\ handled' = [handled EXCEPT ![c].outcome = "send_failed",
                                           ![c].calls = Logged(@, visit)]
            /\ UNCHANGED audio_chunks
    /\ processing_lock' = LockAfterRun(alive[c])
    /\ inflight' = [inflight EXCEPT ![c] = @ - 1]
    /\ state' = [state EXCEPT ![c] = NoState]
    /\ UNCHANGED <<inbox, alive, msgNo, processed, discarded, llm_cache>>

\* The inputs Spec draws from: what the clients send and what the stage services
\* answer.  The clients of Spec send binary units (empty ones too) and END and keep
\* their connections open, and the reasoning service names every tool it calls, so
\* HandleOtherText, ClientClose, HandlerExit and HandleRaised, and the wider input
\* sets ClientTexts, SttReplies, LlmResults, ToolOutputs and TtsReplies, are not
\* drawn by Next.
SpecTexts == {<<"END">>}
SpecLens == {0, 960}
SpecSttReplies == {TextR(<<"privet">>), TextR(<<>>)}
SpecLlmResults == {LlmReply(<<"r1">>, <<>>), LlmReply(<<>>, <<ToolCall("get_time", "a")>>)}
SpecToolOutputs == {<<"gotovo">>}
SpecTtsReplies(c, n) == {BinR(Blob(Src("tts", c, n), 1000)), FailR}

Next ==
    \/ \E c \in Conns : \E u \in ClientUnits(c, msgNo[c] + 1, SpecTexts, SpecLens) : ClientSend(c, u)
    \/ \E c \in Conns : HandleBinary(c)
    \/ \E c \in Conns : HandleEndBusy(c)
    \/ \E c \in Conns : HandleEndEmpty(c)
    \/ \E c \in Conns : HandleEndAdmit(c)
    \/ \E c \in Conns : \E resp \in SpecSttReplies, use_streaming \in BOOLEAN :
            SttStep(c, resp, use_streaming)
    \/ \E c \in Conns : \E res \in SpecLlmResults : LlmStep(c, res)
    \/ \E c \in Conns : \E outs \in [1..1 -> SpecToolOutputs] : ToolsStep(c, outs)
    \/ \E c \in Conns : ToolResultsStep(c)
    \/ \E c \in Conns : \E resp \in SpecTtsReplies(c, 1) : TtsStep(c, resp)
    \/ \E c \in Conns : \E resp \in SpecTtsReplies(c, 2) : HandleResult(c, resp)

(***************************************************************************)
(* SpecTools: tools_node and tool_results_processor for one request, with  *)
(* the bus bridge of mqtt_tools.py.  Every pending call runs execute_tool  *)
(* in an executor thread; the bus client's thread runs on_message.         *)
(***************************************************************************)
\* mqtt_tools.py:62, the default timeout of wait_for_response, in seconds
TIMEOUT == 10

\* Bounds of SpecTools: pending calls of the request, and bus messages delivered
MaxCalls == 2
MaxBusMsgs == 2
\* Seconds between two readings of the clock in SpecTools
TickStep == 10

\* The names the reasoning service calls in SpecTools; open_door is not in tool_mapping
CallNames == {"get_time", "open_door"}
CallIds == <<"a", "b", "c", "d">>

\* Payloads of bus messages: a JSON object with a text member, a JSON object
\* without one, JSON that is no object, and text that is no JSON
Obj(text) == [kind |-> "obj", text |-> text]
ObjNoText == [kind |-> "obj_notext", text |-> <<>>]
NotObj == [kind |-> "notobj", text |-> <<"5">>]
Raw(text) == [kind |-> "raw", text |-> text]
BusPayloads == {Obj(<<"polden">>), Obj(<<>>), ObjNoText, NotObj, Raw(<<>>)}
SpecBusPayloads == {Obj(<<"polden">>), Obj(<<>>)}

\* The payload as the string on_message stores
PayloadStr(p) ==
    CASE p.kind = "obj" -> <<"{", "text", ":">> \o p.text \o <<"}">>
      [] p.kind = "obj_notext" -> <<"{", "}">>
      [] OTHER -> p.text

\* mqtt_tools.py:82, 114, 153, 193, 223: f"<prefix>_{int(time.time())}"
RequestPrefix(tool_name) ==
    CASE tool_name = "get_time" -> "time"
      [] tool_name = "set_timer" -> "timer"
      [] tool_name = "set_notification" -> "notification"
      [] tool_name = "get_weather" -> "weather"
      [] OTHER -> "call"
RequestId(tool_name, t) == [prefix |-> RequestPrefix(tool_name), sec |-> t]

\* The second argument of data.get("text", ...), mqtt_tools.py:99, 139, 180, 208, 240
DefaultText(tool_name) ==
    CASE tool_name = "get_time" -> <<"ne_udalos_poluchit_vremya">>
      [] tool_name = "set_timer" -> <<"taimer_ustanovlen">>
      [] tool_name = "set_notification" -> <<"napominanie_ustanovleno">>
      [] tool_name = "get_weather" -> <<"ne_udalos_poluchit_pogodu">>
      [] OTHER -> <<"zvonyu_kontaktu">>

\* What the tool returns without a response, mqtt_tools.py:104-105, 143, 184, 212, 244
FallbackText(tool_name) ==
    CASE tool_name = "get_time" -> <<"tekushchee_vremya", "chasov", "minut">>
      [] tool_name = "set_timer" -> <<"taimer_ustanovlen_na">>
      [] tool_name = "set_notification" -> <<"napominanie_ustanovleno_na">>
      [] tool_name = "get_weather" -> <<"ne_udalos_poluchit_pogodu">>
      [] OTHER -> <<"zvonyu_kontaktu">>

\* mqtt_tools.py:95-105 (and the same lines of the other tools): the return
\* value for what wait_for_response gave, None or the stored string
ToolReturn(tool_name, response) ==
    IF response # None /\ PayloadStr(response[1]) # <<>>
    THEN CASE response[1].kind = "obj" -> response[1].text
           [] response[1].kind = "obj_notext" -> DefaultText(tool_name)
           [] OTHER -> PayloadStr(response[1])
    ELSE FallbackText(tool_name)

TimedOutNever(start, t) == FALSE

\* mqtt_tools.py:65: the loop runs while time.time() - start_time < timeout
TimedOut(start, t) == ~(t - start < TIMEOUT)

QueuePut(q, rid, v) == [r \in DOMAIN q \cup {rid} |-> IF r = rid THEN v ELSE q[r]]
QueueDel(q, rid) == [r \in DOMAIN q \ {rid} |-> q[r]]

gather_as_completed(done, n) == [i \in 1..n |-> done[i].out]

\* agent.py:429-430: asyncio.gather gives the results in the order of the tasks
gather(done, n) ==
    [k \in 1..n |-> done[CHOOSE i \in 1..Len(done) : done[i].pos = k].out]

PendingLists ==
    UNION {{[k \in 1..n |-> ToolCall(names[k], CallIds[k])] : names \in [1..n -> CallNames]}
           : n \in 1..MaxCalls}

IdleExec == [pc |-> "idle", rid |-> RequestId("", 0), start |-> 0, out |-> <<>>, via |-> "none"]

\* The listener between two messages; left counts the messages still to come
ListenerIdle(left) ==
    [pc |-> "idle", rid |-> RequestId("", 0), payload |-> Raw(<<>>), left |-> left]

ToolsIdle ==
    /\ pending = <<>>
    /\ exec = <<>>
    /\ response_queue = <<>>
    /\ now = 0
    /\ listener = ListenerIdle(0)
    /\ published = {}
    /\ completed = <<>>
    /\ tpc = "done"
    /\ tstate = NoState

ToolsInit ==
    /\ pending \in PendingLists
    /\ exec = [k \in 1..Len(pending) |-> IdleExec]
    /\ response_queue = <<>>
    /\ now = 0
    /\ listener = ListenerIdle(MaxBusMsgs)
    /\ published = {}
    /\ completed = <<>>
    /\ tpc = "dispatch"
    /\ tstate = [AgentState(None) EXCEPT !.tool_calls = Some(pending)]

ToolsOnly == UNCHANGED <<serverVars, frameVars, segVars, cacheVars, micVars>>

Finish(k, out, via) ==
    /\ exec' = [exec EXCEPT ![k].pc = "done", ![k].out = out, ![k].via = via]
    /\ completed' = Append(completed, [pos |-> k, out |-> out])

\* The executor thread of call k enters execute_tool (mqtt_tools.py:360-369): a
\* name outside tool_mapping runs no tool and returns at once; a tool registers
\* its request id and publishes the command (mqtt_tools.py:81-92).  exec[k].out
\* is what the tool returned, which execute_tool passes on in tools_node
ToolStart(k) ==
    /\ ToolsOnly
    /\ tpc = "dispatch" /\ exec[k].pc = "idle"
    /\ IF pending[k].name \in ToolNames
       THEN LET rid == RequestId(pending[k].name, now) IN
            /\ response_queue' = QueuePut(response_queue, rid, None)
            /\ published' = published \cup {[pos |-> k, rid |-> rid]}
            /\ exec' = [exec EXCEPT ![k].pc = "wait", ![k].rid = rid, ![k].start = now]
            /\ UNCHANGED completed
       ELSE /\ Finish(k, <<>>, "not_found")
            /\ UNCHANGED <<response_queue, published>>
    /\ UNCHANGED <<pending, now, listener, tpc, tstate>>

\* mqtt_tools.py:66-69: the poll finds the slot filled, takes it and the tool returns
ToolPollHit(k) ==
    /\ ToolsOnly
    /\ exec[k].pc = "wait" /\ ~TimedOut(exec[k].start, now)
    /\ exec[k].rid \in DOMAIN response_queue
    /\ response_queue[exec[k].rid] # None
    /\ response_queue' = QueueDel(response_queue, exec[k].rid)
    /\ Finish(k, ToolReturn(pending[k].name, response_queue[exec[k].rid]), "response")
    /\ UNCHANGED <<pending, now, listener, published, tpc, tstate>>

\* mqtt_tools.py:71-74: the timeout has elapsed, the slot is removed and the
\* tool returns its fallback
ToolTimeout(k) ==
    /\ ToolsOnly
    /\ exec[k].pc = "wait" /\ TimedOut(exec[k].start, now)
    /\ response_queue' = QueueDel(response_queue, exec[k].rid)
    /\ Finish(k, ToolReturn(pending[k].name, None), "timeout")
    /\ UNCHANGED <<pending, now, listener, published, tpc, tstate>>

\* A second passes while a poll loop is running
Tick ==
    /\ ToolsOnly
    /\ \E k \in 1..Len(pending) : exec[k].pc = "wait" /\ ~(now - exec[k].start >= TIMEOUT)
    /\ now < MaxCalls * TIMEOUT
    /\ now' = now + TickStep
    /\ UNCHANGED <<pending, exec, response_queue, listener, published, completed,
                   tpc, tstate>>

\* mqtt_tools.py:45-55: a message arrives on the response topic of a published
\* request id and on_message looks the id up
ListenerCheck(rid, payload) ==
    /\ ToolsOnly
    /\ listener.pc = "idle" /\ listener.left > 0
    /\ \E m \in published : m.rid = rid
    /\ listener' = IF rid \in DOMAIN response_queue
                   THEN [pc |-> "store", rid |-> rid, payload |-> payload,
                         left |-> listener.left - 1]
                   ELSE [listener EXCEPT !.left = @ - 1]
    /\ UNCHANGED <<pending, exec, response_queue, now, published, completed, tpc, tstate>>

\* mqtt_tools.py:56: response_queue[request_id] = payload
ListenerStore ==
    /\ ToolsOnly
    /\ listener.pc = "store"
    /\ response_queue' = QueuePut(response_queue, listener.rid, Some(listener.payload))
    /\ listener' = ListenerIdle(listener.left)
    /\ UNCHANGED <<pending, exec, now, published, completed, tpc, tstate>>

\* agent.py:429-431: every task has finished and tools_node sets tool_results
ToolsAssemble ==
    /\ ToolsOnly
    /\ tpc = "dispatch"
    /\ \A k \in 1..Len(pending) : exec[k].pc = "done"
    /\ tstate' = tools_node(tstate, gather(completed, Len(pending)))
    /\ tpc' = "assembled"
    /\ UNCHANGED <<pending, exec, response_queue, now, listener, published, completed>>

\* agent.py:436-452
ToolsProcess ==
    /\ ToolsOnly
    /\ tpc = "assembled"
    /\ tstate' = tool_results_processor(tstate)
    /\ tpc' = "done"
    /\ UNCHANGED <<pending, exec, response_queue, now, listener, published, completed>>

ToolsNext ==
    \/ \E k \in 1..Len(pending) : ToolStart(k)
    \/ \E k \in 1..Len(pending) : ToolPollHit(k)
    \/ \E k \in 1..Len(pending) : ToolTimeout(k)
    \/ Tick
    \/ \E m \in published, payload \in SpecBusPayloads : ListenerCheck(m.rid, payload)
    \/ ListenerStore
    \/ ToolsAssemble
    \/ ToolsProcess

\* SpecRun: one connection, with everything a client may send and the stage
\* services may answer, closing included; the nodes of each run are logged.  With
\* one connection no END meets a held lock, so HandleEndBusy is no step of it.
\* The client is the one of mic_client.py:130-140, which sends nothing while it
\* waits for the reply to its END.
RunConn == "A"
\* Bound of SpecRun: units the client sends
MaxRunSends == 2

RunNext ==
    \/ \E u \in ClientUnits(RunConn, msgNo[RunConn] + 1, ClientTexts, InLens) :
            /\ msgNo[RunConn] < MaxRunSends
            /\ ~InPipeline(RunConn)
            /\ ClientSend(RunConn, u)
    \/ ClientClose(RunConn)
    \/ HandlerExit(RunConn)
    \/ HandleBinary(RunConn)
    \/ HandleOtherText(RunConn)
    \/ HandleEndEmpty(RunConn)
    \/ HandleEndAdmit(RunConn)
    \/ \E resp \in SttReplies, use_streaming \in BOOLEAN : SttStep(RunConn, resp, use_streaming)
    \/ \E res \in LlmResults : LlmStep(RunConn, res)
    \/ \E outs \in UNION {[1..n -> ToolOutputs] : n \in 1..MaxCalls} : ToolsStep(RunConn, outs)
    \/ ToolResultsStep(RunConn)
    \/ \E resp \in TtsReplies(RunConn, 1) : TtsStep(RunConn, resp)
    \/ \E resp \in TtsReplies(RunConn, 2) : HandleResult(RunConn, resp)
    \/ HandleRaised(RunConn)

(***************************************************************************)
(* SpecMic: the microphone client, mic_client.py:61-140.                   *)
(* vad_record_and_send connects, runs mic_stream_loop on the connection    *)
(* and, when that raises, sleeps and connects again.  The loop hands every *)
(* segment to process_and_send, which sends the audio and END and reads    *)
(* one unit.  The server at the other end answers a submitted segment with *)
(* the units of one reply (agent.py:513-566).                              *)
(***************************************************************************)
MaxSegments == 3
MaxConnects == 2

MicOnly == UNCHANGED <<serverVars, frameVars, segVars, cacheVars, toolVars>>

\* No client is running
MicIdle ==
    mic = [pc |-> "off", conns |-> 0, link |-> "none", seg |-> 0, owed |-> 0,
           wire |-> <<>>, reads |-> <<>>]

\* mic_client.py:62-65: about to call websockets.connect for the first time
MicInit ==
    mic = [pc |-> "connect", conns |-> 0, link |-> "none", seg |-> 0, owed |-> 0,
           wire |-> <<>>, reads |-> <<>>]

\* agent.py:513-566: the replies of the server to the END of segment n, as the
\* units it sends: BUSY, an ERROR text, one binary unit, the framed sequence
MicReplies(n) ==
    {<<TextUnit("BUSY")>>, <<TextUnit("ERROR: TTS error")>>,
     SendAudio(Blob(Src("tts", "A", n), 1000)),
     SendAudio(Blob(Src("tts", "A", n), CHUNK_THRESHOLD + 1))}

\* mic_client.py:65-70: websockets.connect succeeds and mic_stream_loop starts,
\* or it raises and the except branch is entered
MicConnect(ok) ==
    /\ MicOnly
    /\ mic.pc = "connect" /\ mic.conns < MaxConnects
    /\ mic' = IF ok
              THEN [mic EXCEPT !.pc = "loop", !.conns = @ + 1, !.link = "open",
                               !.owed = 0, !.wire = <<>>]
              ELSE [mic EXCEPT !.pc = "sleep", !.conns = @ + 1, !.link = "none"]

\* mic_client.py:70: await asyncio.sleep(5), then the while loop connects again
MicSleep ==
    /\ MicOnly
    /\ mic.pc = "sleep"
    /\ mic' = [mic EXCEPT !.pc = "connect"]

\* mic_client.py:124-126, 131-133: the loop has a segment and process_and_send
\* sends it and END; on a closed connection ws.send raises and the except
\* branch of process_and_send is entered.  seg counts the segments sent
MicSubmit ==
    /\ MicOnly
    /\ mic.pc = "loop"
    /\ IF mic.link = "open"
       THEN /\ mic.seg < MaxSegments
            /\ mic' = [mic EXCEPT !.seg = @ + 1, !.owed = mic.seg + 1, !.pc = "recv"]
       ELSE mic' = [mic EXCEPT !.pc = "except"]

\* The server sends the units of its reply to segment n, which it has not
\* answered yet
ServerReply(n, units) ==
    /\ MicOnly
    /\ mic.link = "open" /\ mic.owed = n
    /\ mic' = [mic EXCEPT !.owed = 0,
                          !.wire = @ \o [i \in 1..Len(units) |->
                                            [of |-> mic.owed, unit |-> units[i]]]]

\* mic_client.py:134-138: response = await ws.recv() returns the next unit and
\* process_and_send plays or prints it as the reply to the segment just sent
MicRecv ==
    /\ MicOnly
    /\ mic.pc = "recv" /\ mic.wire # <<>>
    /\ mic' = [mic EXCEPT !.pc = "loop", !.wire = Tail(@),
                          !.reads = Append(@, [seg |-> mic.seg, of |-> Head(mic.wire).of])]

\* mic_client.py:134: ws.recv() raises on the closed connection and the except
\* branch of process_and_send is entered
MicRecvFail ==
    /\ MicOnly
    /\ mic.pc = "recv" /\ mic.link = "dead" /\ mic.wire = <<>>
    /\ mic' = [mic EXCEPT !.pc = "except"]

\* mic_client.py:139-140: the except branch prints the error, process_and_send
\* returns and mic_stream_loop goes on with the next frame
MicExcept ==
    /\ MicOnly
    /\ mic.pc = "except"
    /\ mic' = [mic EXCEPT !.pc = "loop"]

\* The transport of the open connection fails; the units that had arrived stay
\* readable or are lost with it
Disconnect(keep) ==
    /\ MicOnly
    /\ mic.link = "open"
    /\ mic' = [mic EXCEPT !.link = "dead", !.owed = 0,
                          !.wire = IF keep THEN @ ELSE <<>>]

MicNext ==
    \/ \E ok \in BOOLEAN : MicConnect(ok)
    \/ MicSleep
    \/ MicSubmit
    \/ \E n \in 1..MaxSegments : \E units \in MicReplies(n) : ServerReply(n, units)
    \/ MicRecv
    \/ MicRecvFail
    \/ MicExcept
    \/ \E keep \in BOOLEAN : Disconnect(keep)

(***************************************************************************)
(* The specifications.                                                     *)
(***************************************************************************)
FrameIdle ==
    /\ framer = [payload |-> <<>>, idx |-> 0]
    /\ wire = <<>>
    /\ receiver = [pos |-> 0, played |-> <<>>, printed |-> <<>>]

Init == ServerInit /\ FrameIdle /\ SegInit /\ CacheInit /\ ToolsIdle /\ MicIdle
Spec == Init /\ [][Next]_vars

InitFrame == ServerInit /\ FrameInit /\ SegInit /\ CacheInit /\ ToolsIdle /\ MicIdle
SpecFrame == InitFrame /\ [][FrameNext]_vars

InitSeg == ServerInit /\ FrameIdle /\ SegInit /\ CacheInit /\ ToolsIdle /\ MicIdle
SpecSeg == InitSeg /\ [][SegNext]_vars

InitCache == ServerInit /\ FrameIdle /\ SegInit /\ CacheInit /\ ToolsIdle /\ MicIdle
SpecCache == InitCache /\ [][CacheNext]_vars

\* The cache at the start of the request SpecRun follows: empty (agent.py:130),
\* or as an earlier request with the transcript "privet", answered "r1" by the
\* reasoning service, left it (agent.py:260)
RunCaches == {<<>>, cache_response(<<>>, <<"privet">>, SYSTEM_PROMPT, <<"r1">>)}

InitRun ==
    /\ ServerStart([NoneHandled EXCEPT !.calls = Some(<<>>)])
    /\ FrameIdle /\ SegInit /\ ToolsIdle /\ MicIdle
    /\ llm_cache \in RunCaches
    /\ cacheObs = CacheObsIdle
SpecRun == InitRun /\ [][RunNext]_vars

\* Every remote call of a stage returns or raises, the tools end their waits,
\* and the event loop runs the handler: the step of the pipeline that is
\* enabled is taken
RunFair ==
    WF_vars(\/ \E resp \in SttReplies, use_streaming \in BOOLEAN :
                   SttStep(RunConn, resp, use_streaming)
            \/ \E res \in LlmResults : LlmStep(RunConn, res)
            \/ \E outs \in UNION {[1..n -> ToolOutputs] : n \in 1..MaxCalls} :
                   ToolsStep(RunConn, outs)
            \/ ToolResultsStep(RunConn)
            \/ \E resp \in TtsReplies(RunConn, 1) : TtsStep(RunConn, resp)
            \/ \E resp \in TtsReplies(RunConn, 2) : HandleResult(RunConn, resp)
            \/ HandleRaised(RunConn))
SpecRunLive == SpecRun /\ RunFair

InitMic == ServerInit /\ FrameIdle /\ SegInit /\ CacheInit /\ ToolsIdle /\ MicInit
SpecMic == InitMic /\ [][MicNext]_vars

\* The client's coroutine runs, segments keep coming while the loop runs, and
\* the server answers
MicFair ==
    /\ WF_vars(\E ok \in BOOLEAN : MicConnect(ok))
    /\ WF_vars(MicSleep \/ MicSubmit \/ MicRecv \/ MicRecvFail \/ MicExcept)
    /\ WF_vars(\E n \in 1..MaxSegments : \E units \in MicReplies(n) : ServerReply(n, units))
SpecMicLive == SpecMic /\ MicFair

InitTools == ServerInit /\ FrameIdle /\ SegInit /\ CacheInit /\ ToolsInit /\ MicIdle
SpecTools == InitTools /\ [][ToolsNext]_vars

\* The clock advances, and the operating system runs every executor thread and
\* the event loop
ToolsFair ==
    /\ WF_vars(Tick)
    /\ WF_vars(\E k \in 1..Len(pending) : ToolTimeout(k))
SpecToolsLive == InitTools /\ [][ToolsNext]_vars /\ ToolsFair


(***************************************************************************)
(* Properties of the server, checked under Spec.                           *)
(***************************************************************************)

\* C1: at most one pipeline run is in flight on a connection; a handler starts
\* no second run before its previous run has finished and replied, so a run is
\* in flight exactly while the handler is inside the pipeline.
C1_OneRunInFlight ==
    \A c \in Conns : inflight[c] <= 1 /\ (inflight[c] = 1 <=> InPipeline(c))

\* A run is in flight on a connection that had an earlier END handled
C1_Witness ==
    \E c \in Conns : inflight[c] = 1 /\ InPipeline(c) /\ handled[c].prevEnd > 0

\* C2: an END that the client sent while the run of the connection's previous
\* END was still in flight is answered with BUSY, and its audio is not given to
\* a run.
C2_SecondEndBusy ==
    \A c \in Conns :
        (handled[c].kind = "end" /\ handled[c].during) => handled[c].outcome = "busy"

\* C3: connections are independent: an END with audio buffered is admitted when
\* the connection has no run of its own in flight, and BUSY is the answer
\* exactly when the connection's own run is in flight.
C3_ConnectionsIndependent ==
    \A c \in Conns :
        handled[c].kind = "end" =>
            /\ handled[c].outcome = "busy" <=> handled[c].own
            /\ (handled[c].audio # <<>> /\ ~handled[c].own) => handled[c].outcome = "admitted"

\* C4: an END handled while the lock is held is answered with the one text unit
\* BUSY, the buffer is emptied (what it holds afterwards was received after
\* that END), and no run, then or later, is given a unit dropped by a BUSY.
C4_BusyDiscards ==
    \A c \in Conns :
        /\ handled[c].outcome = "busy" =>
                /\ sent[c] = <<TextUnit("BUSY")>>
                /\ \A n \in UnitNos(BJoin(audio_chunks[c])) : n > handled[c].no
        /\ processed[c] \cap discarded[c] = {}

\* Audio was dropped by a BUSY and a later END of the connection found no audio
C4_Witness ==
    \E c \in Conns :
        discarded[c] # {} /\ handled[c].kind = "end" /\ handled[c].outcome = "empty"

\* C5: once an END has been handled, whatever its outcome, the buffer holds no
\* audio received before it; so the audio of an admitted request is made only
\* of units received after the previous END of the connection.
C5_BufferClearedAfterEnd ==
    \A c \in Conns :
        /\ (handled[c].kind = "end" /\ hpc[c] = "recv") =>
                \A n \in UnitNos(BJoin(audio_chunks[c])) : n > handled[c].no
        /\ handled[c].kind = "end" =>
                \A n \in UnitNos(handled[c].audio) : n > handled[c].prevEnd

\* A second request of a connection was admitted, ran and was replied to
C5_Witness ==
    \E c \in Conns :
        /\ handled[c].outcome = "replied" /\ handled[c].prevEnd > 0
        /\ handled[c].audio # <<>>
        /\ hpc[c] = "recv" /\ BJoin(audio_chunks[c]) = <<>>

(***************************************************************************)
(* Properties of the framing, checked under SpecFrame.                     *)
(***************************************************************************)
\* Bytes carried by the first i units of w
RECURSIVE BytesUpTo(_, _)
BytesUpTo(w, i) == IF i = 0 THEN 0 ELSE BytesUpTo(w, i - 1) + BLen(w[i].data)

\* The payloads of the binary units of w, in order
BinData(w) ==
    LET bins == SelectSeq(w, LAMBDA u : u.type = "bin")
    IN [k \in 1..Len(bins) |-> bins[k].data]

\* C6: a payload of at most 1 MiB is sent as one binary unit equal to it; a
\* larger one as AUDIO_CHUNKS_BEGIN, two or more binary units that are
\* consecutive slices of the payload, each of 1 to 1 MiB bytes, and
\* AUDIO_CHUNKS_END, with nothing else in between.
C6_FramingShape ==
    FrameDone =>
        LET payload == framer.payload IN
        IF BLen(payload) <= 1048576
        THEN wire = <<BinUnit(payload)>>
        ELSE /\ Len(wire) >= 4
             /\ wire[1] = TextUnit("AUDIO_CHUNKS_BEGIN")
             /\ wire[Len(wire)] = TextUnit("AUDIO_CHUNKS_END")
             /\ \A i \in 2..(Len(wire) - 1) :
                    /\ wire[i].type = "bin"
                    /\ BLen(wire[i].data) >= 1
                    /\ BLen(wire[i].data) <= 1048576
                    /\ wire[i].data =
                          BSlice(payload, BytesUpTo(wire, i - 1), BytesUpTo(wire, i))

\* A payload of more than 2 MiB has been sent as three chunks between the markers
C6_Witness ==
    FrameDone /\ BLen(framer.payload) > 2 * MAX_CHUNK_SIZE /\ Len(wire) = 5

\* C7: for every payload, those of exactly the threshold and of its exact
\* multiples included, the binary units of the framing concatenated in order
\* are the payload.
C7_RoundTrip ==
    FrameDone => BJoin(BinData(wire)) = framer.payload

\* A payload of exactly two chunks has been sent
C7_Witness ==
    /\ FrameDone /\ BLen(framer.payload) = 2 * MAX_CHUNK_SIZE
    /\ Len(BinData(wire)) = 2 /\ BJoin(BinData(wire)) = framer.payload

(***************************************************************************)
(* Properties of the segmenter, checked under SpecSeg.                     *)
(***************************************************************************)

\* C8: as long as no run of consecutive speech frames has reached 3, a stream
\* that is silent throughout included, no segment is emitted.
C8_NoSegmentBelowStart ==
    seen.maxRun < 3 => segments = <<>>

\* A run of two speech frames was followed by a second of silence
C8_Witness ==
    /\ seen.maxRun = 2 /\ seen.curK = 2
    /\ seen.curS >= SILENCE_THRESHOLD_FRAMES /\ segments = <<>>

\* C9: a run of K >= 3 speech frames that began while not in speech, followed
\* by at least 33 silence frames, gives exactly one segment: the K speech
\* frames and the 32 silence frames after them, in input order.
C9_OneSegmentPerUtterance ==
    (seen.clean /\ seen.curK >= 3 /\ seen.curS >= 33) =>
        /\ Len(segments) = seen.segsBefore + 1
        /\ segments[Len(segments)] =
              [i \in 1..(seen.curK + 32) |-> seen.runStart + i - 1]

\* Four speech frames and then more silence than closes the segment
C9_Witness ==
    /\ seen.clean /\ seen.curK = 4 /\ seen.curS > SILENCE_THRESHOLD_FRAMES
    /\ Len(segments) = 1 /\ Len(segments[1]) = 36

(***************************************************************************)
(* Properties of the cache, checked under SpecCache.                       *)
(***************************************************************************)
Lookup(k) == get_cached_response(llm_cache, <<k>>, SYSTEM_PROMPT)

\* C10: a lookup after a put gives the response last put for the prompt, also
\* when the put overwrote an entry, as long as the entry has not been evicted
\* (none is while at most 100 distinct prompts were put); once more than 100
\* distinct prompts were put, the prompt put first is a miss.
C10_GetAfterPut ==
    /\ \A k \in 1..MaxKeys :
          (cacheObs.lastPut[k] # None /\ (cacheObs.distinct <= 100 \/ Lookup(k) # None))
              => Lookup(k) = cacheObs.lastPut[k]
    /\ (cacheObs.got # None /\ cacheObs.got[1].op = "put")
          => Lookup(cacheObs.got[1].key) = cacheObs.got[1].res
    /\ (cacheObs.distinct > 100 /\ ~cacheObs.reput) => Lookup(cacheObs.first) = None

\* The first prompt was overwritten, 101 distinct prompts were put, and a
\* lookup of the first prompt missed
C10_Witness ==
    /\ cacheObs.distinct > CACHE_CAPACITY /\ ~cacheObs.reput
    /\ cacheObs.lastPut[1] = Some(<<"r2">>)
    /\ cacheObs.got = Some([op |-> "get", key |-> 1, res |-> None])

Present(k) == Lookup(k) # None
PresentKeys == {k \in 1..MaxKeys : Present(k)}

\* C11: eviction is first in, first out: every prompt that was inserted and is
\* no longer in the cache was inserted before every prompt that is in it, also
\* when the evicted entry had been looked up or overwritten after its insertion.
C11_EvictionIsFifo ==
    LET present == PresentKeys
        evicted == {j \in (1..MaxKeys) \ present : cacheObs.born[j] > 0}
    IN \A j \in evicted : \A k \in present : cacheObs.born[j] < cacheObs.born[k]

\* The first prompt was overwritten and found by a lookup, and was still the
\* one evicted by the 101st insertion: the second prompt is in the cache
C11_Witness ==
    /\ cacheObs.clock = CACHE_CAPACITY + 1
    /\ cacheObs.lastPut[1] = Some(<<"r2">>) /\ 1 \in cacheObs.hits
    /\ ~Present(1) /\ Present(2)

\* C12: the cache never holds more than 100 entries; a put that would exceed
\* 100 evicts exactly one entry (the entries are the 100 of the insertions when
\* there were more), and never the entry it has just put.
C12_BoundedCache ==
    /\ Len(llm_cache) <= 100
    /\ Cardinality(PresentKeys) = Len(llm_cache)
    /\ Len(llm_cache) = Min2(cacheObs.clock, 100)
    /\ (cacheObs.got # None /\ cacheObs.got[1].op = "put") => Present(cacheObs.got[1].key)

\* A put found the cache full and left it full, with its own entry in it
C12_Witness ==
    /\ cacheObs.clock = CACHE_CAPACITY + 2 /\ Len(llm_cache) = CACHE_CAPACITY
    /\ cacheObs.got # None /\ cacheObs.got[1].op = "put"
    /\ cacheObs.got[1].key = CACHE_CAPACITY + 2 /\ Present(CACHE_CAPACITY + 2)

\* The results of the pending calls, each at the position of its call
ByPosition == [k \in 1..Len(pending) |-> execute_tool(pending[k].name, exec[k].out)]

\* C13: whatever the order in which the concurrently issued calls complete, the
\* result map lists the outputs in the order of the pending list and the final
\* text joins them in that order, never in the order of completion
C13_AssemblyByPosition ==
    /\ tpc = "assembled" =>
          /\ tstate.tool_results # None
          /\ Len(tstate.tool_results[1]) = Len(pending)
          /\ \A k \in 1..Len(pending) :
                tstate.tool_results[1][k] = [key |-> pending[k].id, value |-> ByPosition[k]]
    /\ (tpc = "done" /\ pending # <<>>) =>
          tstate.text = Some(IF Len(pending) = 1 THEN ByPosition[1] ELSE JoinLines(ByPosition))

C13_Witness ==
    /\ tpc = "done" /\ Len(pending) >= 2
    /\ completed[1].pos = 2 /\ completed[2].pos = 1
    /\ ByPosition[1] # ByPosition[2]
    /\ tstate.text = Some(JoinLines(ByPosition))

\* C16: a request whose only pending call is get_time ends tool dispatch with a
\* non-empty text for the synthesis stage, whether the bus answered or the wait
\* timed out
C16_TimeTextNonEmpty ==
    (tpc = "done" /\ Len(pending) = 1 /\ pending[1].name = "get_time") =>
        (tstate.text # None /\ tstate.text[1] # <<>>)

\* Some invocation is polling its slot; an invocation that has returned stays returned
SomeWaiting == \E k \in 1..Len(exec) : exec[k].pc = "wait"

\* C17: every tool invocation that waits for the bus returns: a wait that ends
\* by timeout returns the fallback text of its tool, and under the fairness of
\* SpecToolsLive no invocation waits for ever, answered or not (whenever some
\* invocation is waiting, a state follows in which none is)
C17_InvocationReturns ==
    /\ [](\A k \in 1..Len(exec) :
             exec[k].via = "timeout" =>
                 /\ exec[k].pc = "done"
                 /\ exec[k].out = FallbackText(pending[k].name)
                 /\ exec[k].out # <<>>)
    /\ SomeWaiting ~> ~SomeWaiting

C17_Witness ==
    /\ listener.left = MaxBusMsgs /\ listener.pc = "idle"
    /\ \E k \in 1..Len(exec) :
          /\ exec[k].pc = "done" /\ exec[k].via = "timeout"
          /\ ~(now - exec[k].start < TIMEOUT)
          /\ exec[k].out = FallbackText("get_time")

\* C18: once a tool invocation has returned, by reading a response or by timing
\* out, response_queue holds no entry for its request id, however the polling
\* thread and the listener thread interleave; so response_queue is empty
\* whenever no invocation is waiting
C18_NoEntryAfterReturn ==
    /\ \A k \in 1..Len(exec) :
          (exec[k].pc = "done" /\ exec[k].via # "not_found") =>
              exec[k].rid \notin DOMAIN response_queue
    /\ ~SomeWaiting => DOMAIN response_queue = {}

\* The text execute_tool returns for a name outside tool_mapping
NotFoundText(tool_name) == <<"instrument", tool_name, "ne_naiden">>

\* C19: a call whose name is not one of the five tools returns the not-found
\* text for that name, publishes no command and creates no slot in
\* response_queue; the other calls of the request still run their tools, and
\* the result map holds the result of every call
C19_UnknownToolNotFound ==
    /\ \A k \in 1..Len(pending) :
          pending[k].name \notin ToolNames =>
              /\ exec[k].pc \in {"idle", "done"}
              /\ exec[k].pc = "done" => exec[k].via = "not_found"
              /\ \A m \in published : m.pos # k
    /\ DOMAIN response_queue \subseteq {m.rid : m \in published}
    /\ tpc = "assembled" =>
          \A k \in 1..Len(pending) :
              /\ tstate.tool_results[1][k].key = pending[k].id
              /\ IF pending[k].name \in ToolNames
                 THEN /\ exec[k].via \in {"response", "timeout"}
                      /\ \E m \in published : m.pos = k
                      /\ tstate.tool_results[1][k].value = exec[k].out
                 ELSE tstate.tool_results[1][k].value = NotFoundText(pending[k].name)

C19_Witness ==
    /\ tpc = "assembled" /\ Len(pending) = 2
    /\ pending[1].name = "open_door" /\ pending[2].name = "get_time"
    /\ completed[1].pos = 1
    /\ exec[2].via = "response" /\ exec[2].out = <<"polden">>
    /\ tstate.tool_results[1][1].value = NotFoundText("open_door")
    /\ tstate.tool_results[1][2].value = <<"polden">>
    /\ published = {[pos |-> 2, rid |-> exec[2].rid]}

\* C14: an END that finds the buffer empty and the lock free is answered with
\* the single text unit "ERROR: No audio data received"; the handler neither
\* takes the lock nor starts a run and goes on receiving
C14_EmptyEndReply ==
    \A c \in Conns :
        handled[c].outcome = "empty" =>
            /\ sent[c] = <<TextUnit("ERROR: No audio data received")>>
            /\ ~InPipeline(c)
            /\ inflight[c] = 0

\* The log of the run of the last END on c, empty when nothing is logged
RunLog(c) == IF handled[c].calls = None THEN <<>> ELSE handled[c].calls[1]

\* The transcription service answered the run on c with an empty text or with
\* the no-speech marker
HeardNothing(c) ==
    /\ RunLog(c) # <<>>
    /\ RunLog(c)[1].node = "stt" /\ RunLog(c)[1].called /\ RunLog(c)[1].ok
    /\ \/ RunLog(c)[1].text[1] = <<>>
       \/ Strip(RunLog(c)[1].text[1]) = NO_SPEECH_TEXT

\* C15: when the transcription service answers with an empty text or with the
\* no-speech marker, the run goes from stt straight to tts and ends; neither the
\* reasoning service nor a tool nor the synthesis service is called, and the
\* reply to the END is the silent WAV, not an ERROR unit and not other audio
C15_NoSpeechShortCircuit ==
    \A c \in Conns :
        HeardNothing(c) =>
            /\ Len(RunLog(c)) <= 3
            /\ \A i \in 2..Len(RunLog(c)) :
                  /\ RunLog(c)[i].node = (IF i = 2 THEN "tts" ELSE "handle")
                  /\ ~RunLog(c)[i].called
            /\ hpc[c] \in {"tts", "result", "recv", "closed"}
            /\ InPipeline(c) => state[c].text = None /\ state[c].tool_calls = None
            /\ handled[c].outcome \in {"admitted", "replied", "send_failed"}
            /\ handled[c].outcome = "replied" => sent[c] = <<BinUnit(SILENCE_WAV)>>

C15_Witness ==
    /\ HeardNothing(RunConn)
    /\ RunLog(RunConn)[1].text[1] = NO_SPEECH_TEXT \o <<"\n">>
    /\ Len(RunLog(RunConn)) = 3
    /\ handled[RunConn].outcome = "replied"
    /\ sent[RunConn] = <<BinUnit(SILENCE_WAV)>>

\* The tts node of the run on c called the synthesis service with a non-empty
\* text and the call failed
SynthesisFailed(c) ==
    \E i \in 1..Len(RunLog(c)) :
        /\ RunLog(c)[i].node = "tts" /\ RunLog(c)[i].called /\ ~RunLog(c)[i].ok
        /\ RunLog(c)[i].text # None /\ RunLog(c)[i].text[1] # <<>>

\* C20: when the synthesis stage fails for a run that has a text to speak, the
\* reply the server sends to that END is one text unit beginning with ERROR,
\* not the silent WAV and not any other audio
C20_SynthesisFailureIsError ==
    \A c \in Conns :
        (SynthesisFailed(c) /\ handled[c].outcome \in {"replied", "error"}) =>
            sent[c] = <<TextUnit("ERROR: TTS error")>>

\* The texts of ClientTexts that are END once trimmed and put in upper case
EndTexts == {<<"END">>, <<" ", "end", "\n">>}

\* The handler of c takes the unit at the head of its connection
Takes(c) == hpc[c] = "recv" /\ inbox[c] # <<>> /\ inbox'[c] = Tail(inbox[c])

\* C21: a text unit is treated as END exactly when, trimmed and in upper case,
\* it is END; any other text unit is answered with the single unit ACK and
\* leaves the buffer and the lock as they were; a binary unit is appended to
\* the buffer and nothing is sent
C21_UnitEffects ==
    [][\A c \in Conns :
          Takes(c) =>
              LET msg == Head(inbox[c]) IN
              CASE msg.type = "bin" ->
                      /\ audio_chunks'[c] = Append(audio_chunks[c], msg.data)
                      /\ sent' = sent /\ processing_lock' = processing_lock /\ hpc' = hpc
                [] msg.type = "text" /\ msg.text \in EndTexts ->
                      /\ handled'[c].kind = "end"
                      /\ handled'[c].outcome \in {"busy", "empty", "admitted", "send_failed"}
                      /\ sent'[c] # <<TextUnit("ACK")>>
                [] OTHER ->
                      /\ handled'[c].outcome \in {"ack", "send_failed"}
                      /\ alive[c] =>
                            /\ sent'[c] = <<TextUnit("ACK")>>
                            /\ audio_chunks' = audio_chunks
                            /\ processing_lock' = processing_lock /\ hpc' = hpc]_vars

C21_Witness ==
    /\ handled[RunConn].text = <<" ", "end", "\n">>
    /\ handled[RunConn].kind = "end" /\ handled[RunConn].outcome = "admitted"
    /\ processing_lock /\ hpc[RunConn] = "stt"
    /\ audio_chunks[RunConn] # <<>>

\* The visits of the run on c in which a stage client made its call
ClientCalls(c) ==
    {i \in 1..Len(RunLog(c)) : RunLog(c)[i].node \in {"stt", "tts", "handle"} /\ RunLog(c)[i].called}

\* C22: a call of a stage client reads one reply; a text reply beginning with
\* ERROR (and a failed connection) makes the call raise; any other reply, text
\* from the transcription service and binary from the synthesis service, is
\* what the call returns
C22_StageClientReplies ==
    \A c \in Conns :
        /\ \A i \in 1..Len(RunLog(c)) :
              RunLog(c)[i].reply # None <=> i \in ClientCalls(c)
        /\ \A i \in ClientCalls(c) :
              LET v == RunLog(c)[i]
                  r == v.reply[1]
              IN IF r.type = "fail" \/ (r.type = "text" /\ r.text # <<>> /\ r.text[1] = "ERROR")
                 THEN ~v.ok
                 ELSE /\ v.ok
                      /\ v.node = "stt" => (r.type = "text" /\ v.text = Some(r.text))
                      /\ v.node # "stt" => r.type = "bin"
                      /\ (v.node = "tts" /\ i = Len(RunLog(c))) =>
                            state[c].audio = Some(AudioMsg(r.data, 48000))
                      /\ (v.node = "handle" /\ handled[c].outcome = "replied") =>
                            sent[c] = SendAudio(r.data)

C22_Witness ==
    /\ Len(RunLog(RunConn)) >= 3
    /\ RunLog(RunConn)[1].node = "stt"
    /\ RunLog(RunConn)[1].reply = Some(TextR(<<"ERROR", "no model">>))
    /\ ~RunLog(RunConn)[1].ok
    /\ \E i \in ClientCalls(RunConn) :
          /\ RunLog(RunConn)[i].node = "handle" /\ RunLog(RunConn)[i].ok
          /\ RunLog(RunConn)[i].reply[1].type = "bin"
    /\ handled[RunConn].outcome = "replied"

\* C23: the lock is held exactly while some handler is between the admission
\* of an END and the end of its reply; it is free after every run, whether the
\* run replied with audio, replied with an error, or failed to send its reply
C23_LockHeldExactlyInRun ==
    /\ processing_lock <=> \E c \in Conns : InPipeline(c)
    /\ \A c \in Conns :
          handled[c].outcome \in {"replied", "error", "send_failed"} => ~InPipeline(c)

C23_Witness ==
    /\ handled[RunConn].kind = "end" /\ handled[RunConn].outcome = "send_failed"
    /\ Len(RunLog(RunConn)) >= 3
    /\ RunLog(RunConn)[Len(RunLog(RunConn))].node = "handle"
    /\ ~alive[RunConn] /\ hpc[RunConn] = "closed"
    /\ ~processing_lock

\* C24: no END waits for the lock.  In the very step in which a handler takes
\* an END it either finds the lock held and answers BUSY, or finds the buffer
\* empty and answers with the error, or takes the lock and starts the run; so
\* a handler is inside a run only while the lock is held
C24_NoEndWaitsForLock ==
    /\ [](\A c \in Conns : InPipeline(c) => processing_lock)
    /\ [][\A c \in Conns :
             (Takes(c) /\ Head(inbox[c]).type = "text" /\ Head(inbox[c]).text \in EndTexts) =>
                 IF processing_lock
                 THEN /\ handled'[c].outcome \in {"busy", "send_failed"}
                      /\ hpc'[c] \in {"recv", "closed"}
                      /\ alive[c] => sent'[c] = <<TextUnit("BUSY")>>
                 ELSE IF BJoin(audio_chunks[c]) = <<>>
                 THEN /\ handled'[c].outcome \in {"empty", "send_failed"}
                      /\ hpc'[c] \in {"recv", "closed"}
                      /\ ~processing_lock'
                 ELSE /\ handled'[c].outcome = "admitted"
                      /\ hpc'[c] = "stt"
                      /\ processing_lock']_vars

C24_Witness ==
    /\ handled["A"].outcome = "admitted" /\ hpc["A"] = "stt" /\ processing_lock
    /\ handled["B"].outcome = "busy" /\ hpc["B"] = "recv"
    /\ sent["B"] = <<TextUnit("BUSY")>>
    /\ inbox["B"] = <<>>

\* C25: two invocations that wait at the same time have different request ids
C25_RequestIdsUnique ==
    \A j, k \in 1..Len(exec) :
        (j # k /\ exec[j].pc = "wait" /\ exec[k].pc = "wait") => exec[j].rid # exec[k].rid

\* C26: a store of the listener into a slot that already holds a response
\* leaves the stored value as it was
C26_SlotFilledOnce ==
    [][(/\ listener.pc = "store" /\ listener'.pc = "idle"
        /\ listener.rid \in DOMAIN response_queue
        /\ response_queue[listener.rid] # None)
       => response_queue'[listener.rid] = response_queue[listener.rid]]_vars

\* The calls of the synthesis service in the run of connection c: the one of
\* the Synthesize stage and the one handle makes for the text of the result
SynthesisCalls(c) ==
    {i \in 1..Len(RunLog(c)) : RunLog(c)[i].node \in {"tts", "handle"} /\ RunLog(c)[i].called}

\* C27: the run of one END calls the synthesis service at most once
C27_OneSynthesisCall == \A c \in Conns : Cardinality(SynthesisCalls(c)) <= 1

StageRank(node) ==
    CASE node = "stt" -> 1
      [] node \in {"llm", "llm_streaming"} -> 2
      [] node = "tools" -> 3
      [] node = "tool_results_processor" -> 4
      [] node = "tts" -> 5
      [] OTHER -> 6

\* The visits of the graph's nodes in the run of connection c, without the
\* entry handle adds after the graph has returned
StageLog(c) == SelectSeq(RunLog(c), LAMBDA v : v.node # "handle")

\* C28: the nodes of one run are visited in the order stt, llm or
\* llm_streaming, tools, tool_results_processor, tts, each at most once, the
\* first being stt; tool_results_processor follows tools and nothing else, and
\* tts follows it; the reasoning node is left for tools exactly when it left
\* tool calls, and otherwise for tts, which gets the reasoning text
C28_StageOrder ==
    /\ [](\A c \in Conns :
            LET L == StageLog(c) IN
            /\ L # <<>> => L[1].node = "stt"
            /\ \A i \in 1..Len(L) - 1 :
                /\ StageRank(L[i].node) < StageRank(L[i + 1].node)
                /\ L[i].node = "tools" <=> L[i + 1].node = "tool_results_processor"
                /\ L[i].node = "tool_results_processor" => L[i + 1].node = "tts"
                /\ (StageRank(L[i].node) = 2 /\ L[i + 1].node = "tts")
                       => L[i + 1].text = L[i].text)
    /\ [][\A c \in Conns :
            (hpc[c] \in {"llm", "llm_streaming"} /\ hpc'[c] # hpc[c])
            => /\ hpc'[c] \in {"tools", "tts"}
               /\ hpc'[c] = "tools" <=> Truthy(state'[c].tool_calls)]_vars

C28_Witness ==
    /\ hpc[RunConn] = "result"
    /\ Len(StageLog(RunConn)) = 5
    /\ StageLog(RunConn)[3].node = "tools"
    /\ state[RunConn].tool_calls = None

\* C29: result assembly makes the final text the one result when there is one
\* and otherwise the non-empty outputs joined with the separator, and clears
\* the tool calls and the result map
C29_ResultAssembly ==
    [][(tpc = "assembled" /\ tpc' = "done" /\ Truthy(tstate.tool_results))
       => LET d == tstate.tool_results[1]
              outputs == [k \in 1..Len(d) |-> d[k].value]
              nonEmpty == SelectSeq(outputs, LAMBDA v : v # <<>>)
          IN /\ tstate'.text = Some(IF Len(d) = 1 THEN d[1].value ELSE JoinLines(nonEmpty))
             /\ tstate'.tool_calls = None
             /\ tstate'.tool_results = None]_vars

\* The run of connection c began with a transcription call that failed: the
\* service did not answer or answered with an ERROR text
TranscribeFailed(c) ==
    /\ RunLog(c) # <<>>
    /\ RunLog(c)[1].node = "stt" /\ RunLog(c)[1].called /\ ~RunLog(c)[1].ok

\* C30: after a failed transcription call the pipeline holds the canned
\* recognition-failed text and goes on to the reasoning node, and the run ends
\* in an audio reply unless the connection is gone or a later stage failed
C30_TranscribeErrorRecovered ==
    \A c \in Conns :
        TranscribeFailed(c) =>
            LET L == RunLog(c)
                last == L[Len(L)]
            IN /\ Len(L) = 1 => /\ hpc[c] \in {"llm", "llm_streaming"}
                                /\ state[c].text = Some(STT_ERROR_TEXT)
               /\ Len(L) >= 2 => L[2].node \in {"llm", "llm_streaming"}
               /\ last.node # "handle" => InPipeline(c)
               /\ last.node = "handle" =>
                    /\ handled[c].outcome \in {"replied", "error", "send_failed"}
                    /\ handled[c].outcome = "error" =>
                         \/ last.called /\ ~last.ok
                         \/ \E i \in 1..Len(L) : L[i].node = "tools" /\ ~L[i].ok
                    /\ handled[c].outcome = "replied" =>
                         sent[c] = IF last.called THEN SendAudio(last.reply[1].data)
                                   ELSE <<BinUnit(SILENCE_WAV)>>

C30_Witness ==
    /\ TranscribeFailed(RunConn)
    /\ RunLog(RunConn)[1].reply = Some(FailR)
    /\ RunLog(RunConn)[Len(RunLog(RunConn))].node = "handle"
    /\ RunLog(RunConn)[Len(RunLog(RunConn))].called
    /\ handled[RunConn].outcome = "replied"

\* Visit i of the run of connection c is a reasoning node whose call of the
\* reasoning service raised
ReasonFailed(c, i) ==
    /\ RunLog(c)[i].node \in {"llm", "llm_streaming"}
    /\ RunLog(c)[i].called /\ ~RunLog(c)[i].ok

\* C31: a reasoning node whose call raised leaves the canned apology text and
\* no tool calls, and the next node is tts, which is entered with that text
C31_ReasonFailureApology ==
    \A c \in Conns : \A i \in 1..Len(RunLog(c)) :
        ReasonFailed(c, i) =>
            /\ RunLog(c)[i].text = Some(LLM_ERROR_TEXT)
            /\ Len(RunLog(c)) = i => /\ hpc[c] = "tts"
                                     /\ state[c].text = Some(LLM_ERROR_TEXT)
                                     /\ ~Truthy(state[c].tool_calls)
            /\ Len(RunLog(c)) > i => /\ RunLog(c)[i + 1].node = "tts"
                                     /\ RunLog(c)[i + 1].called
                                     /\ RunLog(c)[i + 1].text = Some(LLM_ERROR_TEXT)

C31_Witness ==
    /\ Len(RunLog(RunConn)) >= 3
    /\ RunLog(RunConn)[2].node = "llm_streaming"
    /\ ReasonFailed(RunConn, 2)
    /\ RunLog(RunConn)[3].node = "tts"

\* The texts result assembly has made from tool outputs in the logged runs
ToolDerivedTexts ==
    UNION {{RunLog(c)[i].text : i \in {j \in 1..Len(RunLog(c)) :
                                           RunLog(c)[j].node = "tool_results_processor"}}
           : c \in Conns}

\* C32: no value of the cache is the canned apology, the canned
\* recognition-failed text or a text made from tool outputs; the cache changes
\* only in a step of a reasoning node that found no cached answer, called the
\* reasoning service without an exception and got no tool calls, and the change
\* is the insertion of the returned text under the prompt's key
C32_CacheHoldsReasoningTexts ==
    /\ [](\A i \in 1..Len(llm_cache) :
            /\ llm_cache[i].value \notin {LLM_ERROR_TEXT, STT_ERROR_TEXT}
            /\ Some(llm_cache[i].value) \notin ToolDerivedTexts)
    /\ [][llm_cache' # llm_cache
          => \E c \in Conns :
                /\ hpc[c] \in {"llm", "llm_streaming"}
                /\ LlmInvoked(state[c], llm_cache)
                /\ LET log == handled'[c].calls[1] IN log[Len(log)].ok
                /\ ~Truthy(state'[c].tool_calls)
                /\ state'[c].text # None
                /\ llm_cache' = cache_response(llm_cache, state[c].text[1], SYSTEM_PROMPT,
                                               state'[c].text[1])]_vars

C32_Witness ==
    /\ Len(llm_cache) = 2
    /\ llm_cache[2] = [key |-> get_cache_key(STT_ERROR_TEXT, SYSTEM_PROMPT), value |-> <<"r1">>]
    /\ Len(RunLog(RunConn)) >= 2
    /\ RunLog(RunConn)[2].called /\ RunLog(RunConn)[2].ok

\* A step of the segmenter's loop that takes a frame, and whether the voice
\* detector called the frame speech
TakesFrame == audio_queue # <<>> /\ audio_queue' = Tail(audio_queue)
TookSpeech == seen'.curS = 0

\* C33: while in speech the buffer holds every frame since the segment's first,
\* in input order, and the silence run is the number of silence frames since
\* the last speech frame, below the end threshold; a speech frame, and a
\* silence frame that leaves the run below the threshold, is appended, keeps
\* the segment open and emits nothing, and a speech frame sets the run to zero
C33_PausesKeepSegmentOpen ==
    /\ [](in_speech =>
            /\ audio_buffer # <<>>
            /\ audio_buffer = [i \in 1..Len(audio_buffer) |-> audio_buffer[1] + i - 1]
            /\ audio_buffer[Len(audio_buffer)] = frameNo - Len(audio_queue)
            /\ silence_frames = seen.curS
            /\ silence_frames < SILENCE_THRESHOLD_FRAMES)
    /\ [][(in_speech /\ TakesFrame
           /\ (TookSpeech \/ silence_frames + 1 < SILENCE_THRESHOLD_FRAMES))
          => /\ in_speech'
             /\ segments' = segments
             /\ audio_buffer' = Append(audio_buffer, Head(audio_queue))
             /\ silence_frames' = IF TookSpeech THEN 0 ELSE silence_frames + 1]_vars

\* Speech went on after a pause inside the open segment
C33_Witness ==
    /\ in_speech /\ ~seen.clean /\ seen.curK = 1 /\ silence_frames = 0
    /\ Len(audio_buffer) >= seen.maxRun + 6
    /\ segments = <<>>

\* s is a run of consecutive input frames in input order
Contiguous(s) == s = [i \in 1..Len(s) |-> s[1] + i - 1]
LastOf(s) == s[Len(s)]

C35_AdmittedEndIsAnswered ==
    InPipeline(RunConn) ~>
        /\ ~InPipeline(RunConn) /\ ~processing_lock
        /\ \/ ~alive[RunConn]
           \/ /\ handled[RunConn].outcome \in {"replied", "error"}
              /\ hpc[RunConn] = "recv" /\ sent[RunConn] # <<>>

C35_Witness ==
    /\ handled[RunConn].outcome = "error" /\ alive[RunConn]
    /\ hpc[RunConn] = "recv" /\ ~processing_lock
    /\ sent[RunConn] = <<TextUnit("ERROR: TTS error")>>
    /\ Len(RunLog(RunConn)) >= 5

(***************************************************************************)
(* Properties of the microphone client, checked under SpecMic and          *)
(* SpecMicLive.                                                            *)
(***************************************************************************)

\* C36: after the transport of its connection has failed the client comes to
\* leave mic_stream_loop, for the sleep that precedes the next connection
C36_ReconnectAfterDisconnect ==
    (mic.link = "dead") ~> (mic.pc \in {"sleep", "connect"})

\* C37: every unit the client reads as the reply to segment N is a unit of the
\* server's reply to segment N
C37_ReplyPairing ==
    \A i \in 1..Len(mic.reads) : mic.reads[i].of = mic.reads[i].seg

\* The replies that carry binary audio: the framing of an output of the
\* synthesis service for the connection, or the silence clip
AudioReplies(c) ==
    {SendAudio(r.data) : r \in {x \in TtsReplies(c, 1) \cup TtsReplies(c, 2) : x.type = "bin"}}
    \cup {<<BinUnit(SILENCE_WAV)>>}

\* C38: a reply with a binary unit is the framing of an output of the synthesis
\* service or the silence clip, and no byte of it comes from the audio the
\* client sent; this also when the tts node made no call or its call failed,
\* so that the state's audio field still held the inbound audio
C38_ReplyAudioIsSynthesized ==
    /\ \A c \in Conns :
          (\E i \in 1..Len(sent[c]) : sent[c][i].type = "bin") =>
              /\ sent[c] \in AudioReplies(c)
              /\ \A i \in 1..Len(sent[c]) : \A j \in 1..Len(sent[c][i].data) :
                    sent[c][i].data[j].src.kind # "in"
    /\ \A c \in Conns :
          (hpc[c] = "result" /\ ~(RunLog(c)[Len(RunLog(c))].called /\ RunLog(c)[Len(RunLog(c))].ok))
              => /\ state[c].audio # None
                 /\ \A j \in 1..Len(state[c].audio[1].raw) :
                       state[c].audio[1].raw[j].src.kind = "in"

\* The call of the tts node failed and the reply is audio all the same
C38_Witness ==
    /\ handled[RunConn].outcome = "replied"
    /\ \E i \in 1..Len(RunLog(RunConn)) :
          /\ RunLog(RunConn)[i].node = "tts"
          /\ RunLog(RunConn)[i].called /\ ~RunLog(RunConn)[i].ok
    /\ sent[RunConn] # <<>> /\ sent[RunConn][1].type = "bin"
    /\ sent[RunConn] # <<BinUnit(SILENCE_WAV)>>

\* C39: every visit of the tools node ends without an exception and is
\* followed by result assembly
C39_DispatchNeverRaises ==
    \A c \in Conns : \A i \in 1..Len(RunLog(c)) :
        RunLog(c)[i].node = "tools" =>
            /\ RunLog(c)[i].ok
            /\ i < Len(RunLog(c)) => RunLog(c)[i + 1].node = "tool_results_processor"

=============================================================================
